---- MODULE Spec2Model ----
(***************************************************************************)
(* Model of bds_data_providers: the selection factory of the record-based  *)
(* contract (market_factory.py) and the retry-wrapped REST call of the     *)
(* Alpha Vantage adapters (alphavantage.py, alphavantage_market.py).       *)
(*                                                                         *)
(* Spec    : the factory (get / safe get / available / clear_cache).       *)
(* SpecApi : one retry-wrapped _api_call after another.                    *)
(* SpecAv  : the table-based Alpha Vantage adapter (construction and the   *)
(*           fetch operations, each with its retried calls inside).        *)
(* SpecThreads : two threads inside get_market_provider(name).             *)
(* SpecHistory : DataProvider.fetch_price_history over any                 *)
(*           fetch_daily_prices.                                           *)
(* SpecMarket : the record-based Alpha Vantage adapter.                    *)
(***************************************************************************)
EXTENDS Integers, Sequences, FiniteSets, TLC

VARIABLES provider_cache, nextId, sinceClear, stale, ret,
          apiPc, calls, attempt, requests, raised, slept, apiResult, lastResp,
          avModule, av, avRet,
          threads, histRet, overview_cache, mkRet

vars == <<provider_cache, nextId, sinceClear, stale, ret,
          apiPc, calls, attempt, requests, raised, slept, apiResult, lastResp,
          avModule, av, avRet,
          threads, histRet, overview_cache, mkRet>>

factoryVars == <<provider_cache, nextId, sinceClear, stale, ret>>

apiVars == <<apiPc, calls, attempt, requests, raised, slept, apiResult, lastResp>>

avVars == <<avModule, av, avRet>>

threadVars == <<threads>>

historyVars == <<histRet>>

marketVars == <<overview_cache, mkRet>>

(***************************************************************************)
(* Bounds                                                                  *)
(***************************************************************************)
\* instances constructed in one run of the factory
MaxInst == 3

\* _api_call invocations in one run of SpecApi
MaxCalls == 2

\* length of the ticker list passed to fetch_daily_prices
MaxTickers == 2

\* rows of the table a fetch_daily_prices implementation hands to
\* fetch_price_history
MaxRows == 2

(***************************************************************************)
(* market_factory.py: the registry                                         *)
(***************************************************************************)
PROVIDER_REGISTRY ==
    << [name |-> "Yahoo Finance", module |-> "yahoo_market",
        cls |-> "YahooMarketProvider", avail |-> "None"],
       [name |-> "Bloomberg", module |-> "bloomberg_market",
        cls |-> "BloombergMarketProvider", avail |-> "bloomberg_market.is_available"],
       [name |-> "Interactive Brokers", module |-> "ib_market",
        cls |-> "IBMarketProvider", avail |-> "ib_market.is_available"] >>

RegNames == {PROVIDER_REGISTRY[i].name : i \in DOMAIN PROVIDER_REGISTRY}

\* names a caller may pass that are not display names of the registry
UnknownNames == {"NonExistentProvider", "bloomberg", "Alpha Vantage"}

Names == RegNames \cup UnknownNames

\* **kwargs of a call: the set of keyword names passed
KwargChoices == {{}, {"host"}, {"host", "port"}}

\* variant: the comparison ignores the case of the name
RegIndexLoose(name) ==
    IF name = "bloomberg" THEN 2
    ELSE IF \E i \in DOMAIN PROVIDER_REGISTRY : PROVIDER_REGISTRY[i].name = name
    THEN CHOOSE i \in DOMAIN PROVIDER_REGISTRY : PROVIDER_REGISTRY[i].name = name
    ELSE 0

\* index of the first registry entry whose display name equals name, 0 if none
RegIndex(name) ==
    IF \E i \in DOMAIN PROVIDER_REGISTRY : PROVIDER_REGISTRY[i].name = name
    THEN CHOOSE i \in DOMAIN PROVIDER_REGISTRY :
            /\ PROVIDER_REGISTRY[i].name = name
            /\ \A j \in DOMAIN PROVIDER_REGISTRY :
                  PROVIDER_REGISTRY[j].name = name => i <= j
    ELSE 0

(***************************************************************************)
(* The adapters' environment at the time of a call.  The adapter modules   *)
(* of the registry are collaborators: a module may fail to import, its     *)
(* optional dependency may be missing, its credential may be missing, its  *)
(* session may be unreachable, or it is ready.                             *)
(***************************************************************************)
EnvStates == {"modBroken", "depMissing", "noCredential", "unreachable", "ready"}

NoExc == [type |-> "none", from |-> "none"]

\* importlib.import_module(module_path) of an adapter module
ImportOutcome(e) ==
    IF e = "modBroken" THEN [type |-> "ImportError", from |-> "import"] ELSE NoExc

\* cls(**kwargs): the adapter constructor
CtorOutcome(e) ==
    CASE e = "depMissing"   -> [type |-> "ImportError", from |-> "ctor"]
      [] e = "noCredential" -> [type |-> "ValueError", from |-> "ctor"]
      [] e = "unreachable"  -> [type |-> "ConnectionError", from |-> "ctor"]
      [] OTHER              -> NoExc

\* is_available() of an adapter module: "true", "false", or "raise" when the
\* import of the probe's module (or the probe) raises
ProbeOutcome(e) ==
    CASE e = "modBroken" -> "raise"
      [] e = "ready"     -> "true"
      [] OTHER           -> "false"

(***************************************************************************)
(* The singleton cache: an insertion-ordered mapping name -> instance,     *)
(* kept as a sequence of entries with distinct names.                      *)
(***************************************************************************)
\* the elements of a sequence
Elems(l) == {l[i] : i \in DOMAIN l}

InCache(c, name) == \E i \in DOMAIN c : c[i].name = name

CacheGet(c, name) == c[CHOOSE i \in DOMAIN c : c[i].name = name]

NoInst == [inst |-> 0, cls |-> "none"]

(***************************************************************************)
(* available_market_providers()                                            *)
(***************************************************************************)
\* variant: "if avail_fn:" tests the function object, true whenever it was found
ProbeSaysAvailableTruthy(outcome) == outcome \in {"true", "false"}

\* try: ... if avail_fn(): names.append(display_name) / except Exception: pass
ProbeSaysAvailable(outcome) == outcome = "true"

RECURSIVE AvailFrom(_, _)
AvailFrom(i, env) ==
    IF i > Len(PROVIDER_REGISTRY) THEN <<>>
    ELSE LET entry == PROVIDER_REGISTRY[i]
             rest  == AvailFrom(i + 1, env)
         IN  IF entry.avail = "None" THEN <<entry.name>> \o rest
             ELSE IF ProbeSaysAvailable(ProbeOutcome(env[entry.name]))
                  THEN <<entry.name>> \o rest
                  ELSE rest

available_market_providers(env) == AvailFrom(1, env)

(***************************************************************************)
(* get_market_provider(name, **kwargs)                                     *)
(***************************************************************************)
GetResult(c, nid, exc, obj, runs, listed) ==
    [cache |-> c, nextId |-> nid, exc |-> exc, obj |-> obj,
     ctorRuns |-> runs, listed |-> listed]

\* variant: the cache is consulted whatever the arguments
CacheHitAnyArgs(c, name, kwargs) == InCache(c, name)

\* if not kwargs and name in _provider_cache
CacheHit(c, name, kwargs) == kwargs = {} /\ InCache(c, name)

\* variant: every failure of the construction is re-raised as the lookup error
ConstructWrapping(entry, kwargs, env) ==
    IF ImportOutcome(env[entry.name]) # NoExc
    THEN [exc |-> [type |-> "ValueError", from |-> "lookup"], ctorRuns |-> 0]
    ELSE [exc |-> IF CtorOutcome(env[entry.name]) # NoExc
                  THEN [type |-> "ValueError", from |-> "lookup"] ELSE NoExc,
          ctorRuns |-> 1]

\* variant: "instance = cls": the class is handed out without being called
ConstructNoCall(entry, kwargs, env) ==
    [exc |-> ImportOutcome(env[entry.name]), ctorRuns |-> 0]

\* mod = import_module(module_path); cls = getattr(mod, cls_name);
\* instance = cls(**kwargs): the exception raised, with the constructor runs
Construct(entry, kwargs, env) ==
    IF ImportOutcome(env[entry.name]) # NoExc
    THEN [exc |-> ImportOutcome(env[entry.name]), ctorRuns |-> 0]
    ELSE [exc |-> CtorOutcome(env[entry.name]), ctorRuns |-> 1]

\* _provider_cache[name] = instance: a new key goes last, a present key
\* keeps its place and gets the new value
DictSet(c, name, obj) ==
    IF InCache(c, name)
    THEN [i \in DOMAIN c |-> IF c[i].name = name
                             THEN [name |-> name, inst |-> obj.inst, cls |-> obj.cls]
                             ELSE c[i]]
    ELSE Append(c, [name |-> name, inst |-> obj.inst, cls |-> obj.cls])

\* variant: the assignment to the cache is missing
StoreNever(c, name, kwargs, obj) == c

\* if not kwargs: _provider_cache[name] = instance
Store(c, name, kwargs, obj) ==
    IF kwargs = {} THEN DictSet(c, name, obj) ELSE c

get_market_provider(c, nid, name, kwargs, env) ==
    IF CacheHit(c, name, kwargs)
    THEN LET hit == CacheGet(c, name)
         IN  GetResult(c, nid, NoExc, [inst |-> hit.inst, cls |-> hit.cls], 0, <<>>)
    ELSE IF RegIndex(name) # 0
    THEN LET entry == PROVIDER_REGISTRY[RegIndex(name)]
             built == Construct(entry, kwargs, env)
             obj   == [inst |-> nid + 1, cls |-> entry.cls]
         IN  IF built.exc # NoExc
             THEN GetResult(c, nid, built.exc, NoInst, built.ctorRuns, <<>>)
             ELSE GetResult(Store(c, name, kwargs, obj), nid + 1, NoExc, obj,
                            built.ctorRuns, <<>>)
    ELSE GetResult(c, nid, [type |-> "ValueError", from |-> "lookup"], NoInst, 0,
                   available_market_providers(env))

(***************************************************************************)
(* get_market_provider_safe(name, **kwargs)                                *)
(***************************************************************************)
\* variant: "except ImportError": other exceptions are not caught
ShouldFallbackImportOnly(name, exc) ==
    name # "Yahoo Finance" /\ exc.type = "ImportError"

\* variant: the test of the name is missing
ShouldFallbackAlways(name, exc) == TRUE

\* except Exception as exc: if name != "Yahoo Finance"
ShouldFallback(name, exc) == name # "Yahoo Finance"

\* variant: the caller's constructor arguments are forwarded to the default
FallbackKwargsForwarded(kwargs) == kwargs

\* return get_market_provider("Yahoo Finance"): no constructor arguments
FallbackKwargs(kwargs) == {}

get_market_provider_safe(c, nid, name, kwargs, env) ==
    LET first == get_market_provider(c, nid, name, kwargs, env)
    IN  IF first.exc = NoExc
        THEN [first |-> first, fallback |-> FALSE, final |-> first]
        ELSE IF ShouldFallback(name, first.exc)
        THEN [first |-> first, fallback |-> TRUE,
              final |-> get_market_provider(first.cache, first.nextId,
                                            "Yahoo Finance", FallbackKwargs(kwargs), env)]
        ELSE [first |-> first, fallback |-> FALSE, final |-> first]

(***************************************************************************)
(* clear_cache()                                                           *)
(* hooked: the cached instances for which hasattr(provider, "close");      *)
(* failing: the instances whose close() raises an Exception.               *)
(***************************************************************************)
\* variant: one try around the loop, the first failing close() ends it
RECURSIVE CloseFromStop(_, _, _, _)
CloseFromStop(c, i, hooked, failing) ==
    IF i > Len(c) THEN [closed |-> <<>>, swallowed |-> {}]
    ELSE IF c[i].inst \in hooked /\ c[i].inst \in failing
    THEN [closed |-> <<c[i].inst>>, swallowed |-> {c[i].inst}]
    ELSE LET rest == CloseFromStop(c, i + 1, hooked, failing)
         IN  IF c[i].inst \in hooked
             THEN [closed |-> <<c[i].inst>> \o rest.closed, swallowed |-> rest.swallowed]
             ELSE rest

RECURSIVE CloseFrom(_, _, _, _)
CloseFrom(c, i, hooked, failing) ==
    IF i > Len(c) THEN [closed |-> <<>>, swallowed |-> {}]
    ELSE LET rest == CloseFrom(c, i + 1, hooked, failing)
         IN  IF c[i].inst \in hooked
             THEN [closed    |-> <<c[i].inst>> \o rest.closed,
                   swallowed |-> IF c[i].inst \in failing
                                 THEN {c[i].inst} \cup rest.swallowed
                                 ELSE rest.swallowed]
             ELSE rest

clear_cache(c, hooked, failing) ==
    LET loop == CloseFrom(c, 1, hooked, failing)
    IN  [cache |-> <<>>, exc |-> NoExc,
         closed |-> loop.closed, swallowed |-> loop.swallowed]

(***************************************************************************)
(* The factory as a state machine.  The caller is single-threaded: it     *)
(* makes one call, holds what the call handed back (ret, with the inputs  *)
(* the call ran on), and makes the next call after it has taken the       *)
(* result (Resume).  sinceClear[name] is the instance the no-argument     *)
(* get_market_provider(name) calls have returned since the last           *)
(* clear_cache(), 0 when none has returned yet; stale[name] is the one    *)
(* they returned before the last clear_cache().                           *)
(***************************************************************************)
NoRet ==
    [op |-> "none", name |-> "", kwargs |-> {}, env |-> [n \in RegNames |-> "ready"],
     exc |-> NoExc, obj |-> NoInst, ctorRuns |-> 0, listed |-> <<>>,
     firstExc |-> NoExc, fallback |-> FALSE,
     cached |-> <<>>, hooked |-> {}, closed |-> <<>>, swallowed |-> {}]

ProbedNames == {PROVIDER_REGISTRY[i].name : i \in
                  {j \in DOMAIN PROVIDER_REGISTRY : PROVIDER_REGISTRY[j].avail # "None"}}

AllReady == [n \in RegNames |-> "ready"]

\* one environment state for each outcome of a probe
ProbeReps == {"modBroken", "depMissing", "ready"}

\* the environments a get_market_provider(name, ...) call can tell apart
GetEnvs(name) ==
    IF name \in RegNames
    THEN {[AllReady EXCEPT ![name] = e] : e \in EnvStates}
    ELSE {[n \in RegNames |-> IF n \in ProbedNames THEN p[n] ELSE "ready"] :
             p \in [ProbedNames -> ProbeReps]}

\* the environments a get_market_provider_safe(name, ...) call can tell apart
SafeEnvs(name) ==
    IF name \in RegNames
    THEN {[[AllReady EXCEPT !["Yahoo Finance"] = d] EXCEPT ![name] = e] :
             e \in EnvStates, d \in EnvStates}
    ELSE {[AllReady EXCEPT !["Yahoo Finance"] = d] : d \in EnvStates}

\* the environments available_market_providers() can tell apart
ProbeEnvs ==
    {[n \in RegNames |-> IF n \in ProbedNames THEN p[n] ELSE "ready"] :
        p \in [ProbedNames -> EnvStates]}

FactoryInit ==
    /\ provider_cache = <<>>
    /\ nextId = 0
    /\ sinceClear = [n \in RegNames |-> 0]
    /\ stale = [n \in RegNames |-> 0]
    /\ ret = NoRet

\* sinceClear after one get_market_provider(name, **kwargs) call with result r
NoteReturn(h, name, kwargs, r) ==
    IF name \in RegNames /\ kwargs = {} /\ r.exc = NoExc
    THEN [h EXCEPT ![name] = r.obj.inst]
    ELSE h

Get ==
    \E name \in Names, kwargs \in KwargChoices :
      \E env \in GetEnvs(name) :
        LET r == get_market_provider(provider_cache, nextId, name, kwargs, env)
        IN  /\ ret = NoRet
            /\ r.nextId <= MaxInst
            /\ provider_cache' = r.cache
            /\ nextId' = r.nextId
            /\ sinceClear' = NoteReturn(sinceClear, name, kwargs, r)
            /\ ret' = [NoRet EXCEPT !.op = "get", !.name = name, !.kwargs = kwargs,
                                    !.env = env, !.exc = r.exc, !.obj = r.obj,
                                    !.ctorRuns = r.ctorRuns, !.listed = r.listed]
            /\ UNCHANGED stale
            /\ UNCHANGED <<apiVars, avVars, threadVars, historyVars, marketVars>>

SafeGet ==
    \E name \in Names, kwargs \in KwargChoices :
      \E env \in SafeEnvs(name) :
        LET s  == get_market_provider_safe(provider_cache, nextId, name, kwargs, env)
            h1 == NoteReturn(sinceClear, name, kwargs, s.first)
        IN  /\ ret = NoRet
            /\ s.final.nextId <= MaxInst
            /\ provider_cache' = s.final.cache
            /\ nextId' = s.final.nextId
            /\ sinceClear' = IF s.fallback
                             THEN NoteReturn(h1, "Yahoo Finance", {}, s.final)
                             ELSE h1
            /\ ret' = [NoRet EXCEPT !.op = "safe", !.name = name, !.kwargs = kwargs,
                                    !.env = env, !.exc = s.final.exc, !.obj = s.final.obj,
                                    !.ctorRuns = IF s.fallback
                                                 THEN s.first.ctorRuns + s.final.ctorRuns
                                                 ELSE s.first.ctorRuns,
                                    !.firstExc = s.first.exc, !.fallback = s.fallback]
            /\ UNCHANGED stale
            /\ UNCHANGED <<apiVars, avVars, threadVars, historyVars, marketVars>>

Available ==
    \E env \in ProbeEnvs :
        /\ ret = NoRet
        /\ ret' = [NoRet EXCEPT !.op = "available", !.env = env,
                                !.listed = available_market_providers(env)]
        /\ UNCHANGED <<provider_cache, nextId, sinceClear, stale>>
        /\ UNCHANGED <<apiVars, avVars, threadVars, historyVars, marketVars>>

ClearCache ==
    \E hooked \in SUBSET {provider_cache[i].inst : i \in DOMAIN provider_cache} :
      \E failing \in SUBSET hooked :
        LET r == clear_cache(provider_cache, hooked, failing)
        IN  /\ ret = NoRet
            /\ provider_cache' = r.cache
            /\ sinceClear' = [n \in RegNames |-> 0]
            /\ stale' = [n \in RegNames |->
                            IF sinceClear[n] # 0 THEN sinceClear[n] ELSE stale[n]]
            /\ ret' = [NoRet EXCEPT !.op = "clear", !.exc = r.exc,
                                    !.cached = [i \in DOMAIN provider_cache |->
                                                   provider_cache[i].inst],
                                    !.hooked = hooked,
                                    !.closed = r.closed, !.swallowed = r.swallowed]
            /\ UNCHANGED nextId
            /\ UNCHANGED <<apiVars, avVars, threadVars, historyVars, marketVars>>

\* the caller takes the result of the call and goes on
Resume ==
    /\ ret # NoRet
    /\ ret' = NoRet
    /\ UNCHANGED <<provider_cache, nextId, sinceClear, stale>>
    /\ UNCHANGED <<apiVars, avVars, threadVars, historyVars, marketVars>>

(***************************************************************************)
(* alphavantage.py / alphavantage_market.py: the retry-wrapped _api_call   *)
(***************************************************************************)
\* stop_after_attempt(3)
StopAfterAttempt == 3

\* wait_exponential(multiplier=1, min=2, max=8)
WaitMultiplier == 1

WaitMin == 2

WaitMax == 8

RECURSIVE Pow2(_)
Pow2(k) == IF k <= 0 THEN 1 ELSE 2 * Pow2(k - 1)

Min(a, b) == IF a <= b THEN a ELSE b

\* the sleep after the failed attempt number n
WaitExponential(n) ==
    LET exp == Min(WaitMultiplier * Pow2(n - 1), WaitMax)
    IN  IF WaitMin >= exp THEN WaitMin ELSE exp

\* variant: the attempt count is compared with > instead of >=
\* variant: only transport, status and rate-limit failures are retried
ShouldRetryTransient(exc) ==
    exc.type \in {"Timeout", "HTTPError", "JSONDecodeError", "RuntimeError"}

\* retry_if_exception_type((Exception,)): every exception of the body is one
ShouldRetry(exc) ==
    exc.type \in {"Timeout", "HTTPError", "JSONDecodeError", "ValueError", "RuntimeError"}

ShouldStopLate(n) == n > StopAfterAttempt

\* the stop condition, evaluated after the failed attempt number n
ShouldStop(n) == n >= StopAfterAttempt

\* what one outbound GET can come back with: the transport outcome and, for
\* a JSON body, which of the in-band signalling fields it carries
Responses ==
    {[transport |-> t, fields |-> {}, infoRate |-> FALSE] :
        t \in {"timeout", "httpError", "badJson"}}
    \cup
    {[transport |-> "ok", fields |-> f, infoRate |-> ir] :
        f \in SUBSET {"Error Message", "Note", "Information"}, ir \in BOOLEAN}

\* variant: the test of the "Note" field is missing
ApiBodyNoNote(resp) ==
    CASE resp.transport = "timeout"   -> [type |-> "Timeout", from |-> "session.get"]
      [] resp.transport = "httpError" -> [type |-> "HTTPError", from |-> "raise_for_status"]
      [] resp.transport = "badJson"   -> [type |-> "JSONDecodeError", from |-> "json"]
      [] OTHER ->
           IF "Error Message" \in resp.fields
           THEN [type |-> "ValueError", from |-> "Error Message"]
           ELSE IF "Information" \in resp.fields /\ resp.infoRate
           THEN [type |-> "RuntimeError", from |-> "Information"]
           ELSE NoExc

\* the body of _api_call for one response: an exception or the data
ApiBody(resp) ==
    CASE resp.transport = "timeout"   -> [type |-> "Timeout", from |-> "session.get"]
      [] resp.transport = "httpError" -> [type |-> "HTTPError", from |-> "raise_for_status"]
      [] resp.transport = "badJson"   -> [type |-> "JSONDecodeError", from |-> "json"]
      [] OTHER ->
           IF "Error Message" \in resp.fields
           THEN [type |-> "ValueError", from |-> "Error Message"]
           ELSE IF "Note" \in resp.fields
           THEN [type |-> "RuntimeError", from |-> "Note"]
           ELSE IF "Information" \in resp.fields /\ resp.infoRate
           THEN [type |-> "RuntimeError", from |-> "Information"]
           ELSE NoExc

NoResult == [kind |-> "none", exc |-> NoExc, fields |-> {}]

NoResp == [transport |-> "none", fields |-> {}, infoRate |-> FALSE]

\* variant: reraise is left at its default, the caller gets the library's wrapper
FinalExceptionWrapped(excs) == [type |-> "RetryError", from |-> "tenacity"]

\* reraise=True: what the caller gets when the attempts excs are exhausted
FinalException(excs) == excs[Len(excs)]

ApiInit ==
    /\ apiPc = "idle"
    /\ calls = 0
    /\ attempt = 0
    /\ requests = 0
    /\ raised = <<>>
    /\ slept = <<>>
    /\ apiResult = NoResult
    /\ lastResp = NoResp

\* a caller invokes self._api_call(params)
ApiCall ==
    /\ apiPc \in {"idle", "returned", "raised"}
    /\ calls < MaxCalls
    /\ calls' = calls + 1
    /\ apiPc' = "attempt"
    /\ attempt' = 1
    /\ requests' = 0
    /\ raised' = <<>>
    /\ slept' = <<>>
    /\ apiResult' = NoResult
    /\ lastResp' = NoResp
    /\ UNCHANGED <<factoryVars, avVars, threadVars, historyVars, marketVars>>

\* one attempt: the GET is sent and the body of _api_call runs on the response
ApiAttempt ==
    /\ apiPc = "attempt"
    /\ \E resp \in Responses :
         LET exc == ApiBody(resp)
         IN  /\ requests' = requests + 1
             /\ lastResp' = resp
             /\ IF exc = NoExc
                THEN /\ apiPc' = "returned"
                     /\ apiResult' = [kind |-> "data", exc |-> NoExc, fields |-> resp.fields]
                     /\ UNCHANGED raised
                ELSE /\ raised' = Append(raised, exc)
                     /\ IF ~ShouldRetry(exc) \/ ShouldStop(attempt)
                        THEN /\ apiPc' = "raised"
                             /\ apiResult' = [kind |-> "exception",
                                               exc |-> FinalException(Append(raised, exc)),
                                               fields |-> {}]
                        ELSE /\ apiPc' = "sleep"
                             /\ UNCHANGED apiResult
    /\ UNCHANGED <<calls, attempt, slept>>
    /\ UNCHANGED <<factoryVars, avVars, threadVars, historyVars, marketVars>>

\* the backoff sleep before the next attempt
ApiSleep ==
    /\ apiPc = "sleep"
    /\ slept' = Append(slept, WaitExponential(attempt))
    /\ attempt' = attempt + 1
    /\ apiPc' = "attempt"
    /\ UNCHANGED <<calls, requests, raised, apiResult, lastResp>>
    /\ UNCHANGED <<factoryVars, avVars, threadVars, historyVars, marketVars>>

(***************************************************************************)
(* Specifications                                                          *)
(***************************************************************************)
(* alphavantage.py: the optional import and the constructor                *)
(***************************************************************************)
NoAvRet == [op |-> "none"]

AvInit ==
    /\ avModule = [imported |-> FALSE, has_requests |-> FALSE]
    /\ av = [constructed |-> FALSE, api_key |-> "", session |-> FALSE]
    /\ avRet = NoAvRet

\* Python truth value of an optional string
Truthy(str) == str \notin {"None", ""}

\* os.environ.get(name, default)
EnvironGet(env, default) == IF env = "unset" THEN default ELSE env

\* variant: the environment value wins over the explicit argument
AlphaVantageProviderEnvFirst(has_requests, api_key, env) ==
    IF ~has_requests
    THEN [exc |-> [type |-> "ImportError", from |-> "__init__"],
          api_key |-> "", session |-> FALSE]
    ELSE LET key == IF Truthy(EnvironGet(env, "")) THEN EnvironGet(env, "") ELSE api_key
         IN  IF ~Truthy(key)
             THEN [exc |-> [type |-> "ValueError", from |-> "__init__"],
                   api_key |-> "", session |-> FALSE]
             ELSE [exc |-> NoExc, api_key |-> key, session |-> TRUE]

\* AlphaVantageProvider.__init__
AlphaVantageProvider(has_requests, api_key, env) ==
    IF ~has_requests
    THEN [exc |-> [type |-> "ImportError", from |-> "__init__"],
          api_key |-> "", session |-> FALSE]
    ELSE LET key == IF Truthy(api_key) THEN api_key ELSE EnvironGet(env, "")
         IN  IF ~Truthy(key)
             THEN [exc |-> [type |-> "ValueError", from |-> "__init__"],
                   api_key |-> "", session |-> FALSE]
             ELSE [exc |-> NoExc, api_key |-> key, session |-> TRUE]

\* try: import requests / except ImportError
AvImport ==
    /\ ~avModule.imported
    /\ \E has \in BOOLEAN : avModule' = [imported |-> TRUE, has_requests |-> has]
    /\ UNCHANGED <<av, avRet>>
    /\ UNCHANGED <<factoryVars, apiVars, threadVars, historyVars, marketVars>>

AvConstruct ==
    /\ avModule.imported
    /\ avRet = NoAvRet
    /\ \E api_key \in {"None", "", "key-arg"}, env \in {"unset", "", "key-env"} :
         LET r == AlphaVantageProvider(avModule.has_requests, api_key, env)
         IN  /\ av' = IF r.exc = NoExc
                      THEN [constructed |-> TRUE, api_key |-> r.api_key, session |-> r.session]
                      ELSE av
             /\ avRet' = [op |-> "init", api_key |-> api_key, env |-> env,
                          exc |-> r.exc, key |-> r.api_key, session |-> r.session,
                          requests |-> 0, attempts |-> 1]
    /\ UNCHANGED avModule
    /\ UNCHANGED <<factoryVars, apiVars, threadVars, historyVars, marketVars>>

(***************************************************************************)
(* alphavantage.py: one retried _api_call seen from a fetch operation      *)
(***************************************************************************)
\* the exceptions of the attempts of one call: the first `failures` requests
\* time out, the next one (if any attempt is left) returns the payload
AttemptPlan(failures) ==
    [i \in 1..StopAfterAttempt |->
        IF i <= failures
        THEN ApiBody([transport |-> "timeout", fields |-> {}, infoRate |-> FALSE])
        ELSE NoExc]

RECURSIVE ApiRun(_, _)
\* _av_retry around _api_call, from attempt n on
ApiRun(plan, n) ==
    IF plan[n] = NoExc
    THEN [exc |-> NoExc, requests |-> n]
    ELSE IF ~ShouldRetry(plan[n]) \/ ShouldStop(n)
    THEN [exc |-> FinalException(SubSeq(plan, 1, n)), requests |-> n]
    ELSE ApiRun(plan, n + 1)

\* self._api_call(params) against a server that fails `failures` times
api_call(failures) == ApiRun(AttemptPlan(failures), 1)

\* how many of the attempts of one call the server fails
FailureCounts == {0, 1, StopAfterAttempt}

(***************************************************************************)
(* alphavantage.py: dates and numbers as the API sends them (text)         *)
(***************************************************************************)
\* a float: not-a-number, or v ten-thousandths
NaN == [nan |-> TRUE, v |-> 0]

Num(v) == [nan |-> FALSE, v |-> v]

\* texts float() accepts
FloatTexts == {"187.5", "1000", "12.5", "5.25", "0", "NaN"}

\* float(text), for a text of FloatTexts
float(text) ==
    CASE text = "187.5" -> Num(1875000)
      [] text = "1000"  -> Num(10000000)
      [] text = "12.5"  -> Num(125000)
      [] text = "5.25"  -> Num(52500)
      [] text = "0"     -> Num(0)
      [] text = "NaN"   -> NaN

\* texts date.fromisoformat accepts
IsoTexts == {"2024-01-30", "2024-01-31", "2024-02-01"}

\* date.fromisoformat(text), for a text of IsoTexts
fromisoformat(text) ==
    CASE text = "2024-01-30" -> [year |-> 2024, month |-> 1, day |-> 30]
      [] text = "2024-01-31" -> [year |-> 2024, month |-> 1, day |-> 31]
      [] text = "2024-02-01" -> [year |-> 2024, month |-> 2, day |-> 1]

Dates == {fromisoformat(t) : t \in IsoTexts}

\* date.__lt__
DateLess(a, b) ==
    \/ a.year < b.year
    \/ a.year = b.year /\ a.month < b.month
    \/ a.year = b.year /\ a.month = b.month /\ a.day < b.day

(***************************************************************************)
(* alphavantage.py: fetch_daily_prices                                     *)
(***************************************************************************)
Tickers == {"AAPL", "MSFT"}

\* position of a ticker in the order of strings
TickerRank(t) == IF t = "AAPL" THEN 1 ELSE 2

BarKeys == {"1. open", "2. high", "3. low", "4. close", "5. adjusted close", "6. volume"}

\* a complete bar, a bar without its adjusted close, a bar with a non-number
GoodBar == [k \in BarKeys |-> IF k = "6. volume" THEN "1000" ELSE "187.5"]

Entry(text, bar) == [date_str |-> text, bar |-> bar]

\* bodies of TIME_SERIES_DAILY_ADJUSTED: without the series key, or with a
\* series in the order the API sends it (newest first)
DailyPayloads ==
    LET ShortBar == [k \in BarKeys \ {"5. adjusted close"} |-> GoodBar[k]]
        TextBar  == [k \in BarKeys |-> IF k = "1. open" THEN "n/a" ELSE GoodBar[k]]
    IN
    { [has_ts |-> FALSE, series |-> <<>>],
      [has_ts |-> TRUE, series |-> <<>>],
      [has_ts |-> TRUE, series |-> << Entry("2024-02-01", GoodBar),
                                      Entry("2024-01-31", GoodBar),
                                      Entry("2024-01-30", GoodBar) >>],
      [has_ts |-> TRUE, series |-> << Entry("2024-01-31", GoodBar) >>],
      [has_ts |-> TRUE, series |-> << Entry("2024-02-01", GoodBar),
                                      Entry("2024-01-30", ShortBar) >>],
      [has_ts |-> TRUE, series |-> << Entry("2024-01-31", GoodBar),
                                      Entry("2024-01-30", TextBar) >>],
      [has_ts |-> TRUE, series |-> << Entry("2024-02-01", GoodBar),
                                      Entry("0000-00-00", GoodBar) >>] }

\* what the server does with one call of the loop
DailyOutcomes ==
    {[failures |-> f, payload |-> pl] : f \in FailureCounts \ {StopAfterAttempt},
                                        pl \in DailyPayloads}
    \cup {[failures |-> StopAfterAttempt, payload |-> [has_ts |-> FALSE, series |-> <<>>]]}

\* variant: without the adjusted close column
empty_schema_short ==
    <<"date", "ticker", "open", "high", "low", "close", "volume">>

empty_schema ==
    <<"date", "ticker", "open", "high", "low", "close", "adj_close", "volume">>

\* variant: the end date is excluded
OutOfRangeEndExcluded(bar_date, start, end) ==
    DateLess(bar_date, start) \/ ~DateLess(bar_date, end)

\* bar_date < start or bar_date > end
OutOfRange(bar_date, start, end) ==
    DateLess(bar_date, start) \/ DateLess(end, bar_date)

\* the row built from one bar
Row(ticker, bar_date, bar) ==
    [date |-> bar_date, ticker |-> ticker,
     open |-> float(bar["1. open"]), high |-> float(bar["2. high"]),
     low |-> float(bar["3. low"]), close |-> float(bar["4. close"]),
     adj_close |-> float(bar["5. adjusted close"]), volume |-> float(bar["6. volume"])]

RECURSIVE RowsFrom(_, _, _, _, _)
\* the loop over data[ts_key].items(), from entry i on
RowsFrom(series, i, ticker, start, end) ==
    IF i > Len(series)
    THEN [exc |-> NoExc, rows |-> <<>>]
    ELSE LET e == series[i]
         IN  IF e.date_str \notin IsoTexts
             THEN [exc |-> [type |-> "ValueError", from |-> "fromisoformat"], rows |-> <<>>]
             ELSE IF OutOfRange(fromisoformat(e.date_str), start, end)
             THEN RowsFrom(series, i + 1, ticker, start, end)
             ELSE IF DOMAIN e.bar # BarKeys
             THEN [exc |-> [type |-> "KeyError", from |-> "bar"], rows |-> <<>>]
             ELSE IF \E k \in BarKeys : e.bar[k] \notin FloatTexts
             THEN [exc |-> [type |-> "ValueError", from |-> "float"], rows |-> <<>>]
             ELSE LET rest == RowsFrom(series, i + 1, ticker, start, end)
                  IN  IF rest.exc # NoExc
                      THEN rest
                      ELSE [exc |-> NoExc,
                            rows |-> <<Row(ticker, fromisoformat(e.date_str), e.bar)>>
                                       \o rest.rows]

\* _fetch_single_daily: an exception, or the rows of the frame (none for None)
fetch_single_daily(ticker, start, end, outcome) ==
    LET call == api_call(outcome.failures)
    IN  IF call.exc # NoExc
        THEN [exc |-> call.exc, rows |-> <<>>, requests |-> call.requests]
        ELSE IF ~outcome.payload.has_ts
        THEN [exc |-> NoExc, rows |-> <<>>, requests |-> call.requests]
        ELSE LET r == RowsFrom(outcome.payload.series, 1, ticker, start, end)
             IN  [exc |-> r.exc, rows |-> r.rows, requests |-> call.requests]

\* variant: no try/except around one ticker
TickerFramePropagating(single) == single

\* try: ... except Exception: logger.exception(...) around one ticker
TickerFrame(single) ==
    IF single.exc # NoExc
    THEN [exc |-> NoExc, rows |-> <<>>, requests |-> single.requests]
    ELSE single

RECURSIVE Frames(_, _, _, _, _)
\* the loop over tickers, from position i on: the rows of the frames in order
Frames(tickers, i, start, end, outcomes) ==
    IF i > Len(tickers)
    THEN [exc |-> NoExc, rows |-> <<>>, requests |-> 0]
    ELSE LET one == TickerFrame(fetch_single_daily(tickers[i], start, end, outcomes[i]))
         IN  IF one.exc # NoExc
             THEN one
             ELSE LET rest == Frames(tickers, i + 1, start, end, outcomes)
                  IN  [exc |-> rest.exc,
                       rows |-> one.rows \o rest.rows,
                       requests |-> one.requests + rest.requests]

RECURSIVE Insert(_, _)
Insert(row, sorted) ==
    IF sorted = <<>> THEN <<row>>
    ELSE IF \/ TickerRank(row.ticker) < TickerRank(Head(sorted).ticker)
            \/ /\ row.ticker = Head(sorted).ticker
               /\ DateLess(row.date, Head(sorted).date)
         THEN <<row>> \o sorted
    ELSE <<Head(sorted)>> \o Insert(row, Tail(sorted))

RECURSIVE Sort(_)
\* result.sort(["ticker", "date"])
Sort(rows) ==
    IF rows = <<>> THEN <<>> ELSE Insert(Head(rows), Sort(Tail(rows)))

\* fetch_daily_prices(tickers, start, end)
fetch_daily_prices(tickers, start, end, outcomes) ==
    LET EmptyTable == [columns |-> empty_schema, rows |-> <<>>]
        frames     == Frames(tickers, 1, start, end, outcomes)
    IN  IF tickers = <<>>
        THEN [exc |-> NoExc, table |-> EmptyTable, requests |-> 0]
        ELSE IF frames.exc # NoExc
             THEN [exc |-> frames.exc, table |-> EmptyTable, requests |-> frames.requests]
             ELSE IF frames.rows = <<>>
             THEN [exc |-> NoExc, table |-> EmptyTable, requests |-> frames.requests]
             ELSE [exc |-> NoExc,
                   table |-> [columns |-> empty_schema, rows |-> Sort(frames.rows)],
                   requests |-> frames.requests]

\* the ticker lists passed in
TickerLists == UNION {[1..n -> Tickers] : n \in 0..MaxTickers}

FetchDailyPrices ==
    /\ av.constructed
    /\ avRet = NoAvRet
    /\ \E tickers \in TickerLists, start \in Dates, end \in Dates :
         \E outcomes \in [1..Len(tickers) -> DailyOutcomes] :
            LET r == fetch_daily_prices(tickers, start, end, outcomes)
            IN  avRet' = [op |-> "daily", tickers |-> tickers, start |-> start,
                          end |-> end, outcomes |-> outcomes,
                          exc |-> r.exc, table |-> r.table, requests |-> r.requests]
    /\ UNCHANGED <<avModule, av>>
    /\ UNCHANGED <<factoryVars, apiVars, threadVars, historyVars, marketVars>>

(***************************************************************************)
(* alphavantage.py: fetch_ticker_info and _safe_float                      *)
(***************************************************************************)
\* the body of a response that is an empty object
EmptyOverview ==
    [MarketCapitalization |-> "absent", Beta |-> "absent",
     SharesOutstanding |-> "absent", ShortPercentFloat |-> "absent",
     DividendYield |-> "absent", Sector |-> "absent", Industry |-> "absent"]

OverviewOutcomes ==
    LET OverviewTexts == {"absent", "None", "-", "", "12.5", "n/a", "NaN"}
        OverviewPayloads ==
            [MarketCapitalization : OverviewTexts, Beta : OverviewTexts,
             SharesOutstanding : OverviewTexts, ShortPercentFloat : OverviewTexts,
             DividendYield : {"absent", "5.25"}, Sector : {"absent", "", "Technology"},
             Industry : {"absent", "Software"}]
    IN  {[failures |-> f, payload |-> pl] : f \in FailureCounts \ {StopAfterAttempt},
                                            pl \in OverviewPayloads}
        \cup {[failures |-> StopAfterAttempt, payload |-> EmptyOverview]}

\* _safe_float(data, key, default), val being data.get(key)
safe_float(val, default) ==
    IF val \in {"absent", "None", "-", ""} THEN default
    ELSE IF val \in FloatTexts THEN float(val)
    ELSE default

\* x / 100.0
Div100(x) == IF x.nan THEN NaN ELSE Num(x.v \div 100)

\* int(x) of a float that is a number: truncation
int(x) == x.v \div 10000

\* data.get(key, "") or ""
GetOrEmpty(val) == IF val = "absent" THEN "" ELSE val

\* fetch_ticker_info(ticker)
fetch_ticker_info(outcome) ==
    LET call == api_call(outcome.failures)
        data == outcome.payload
    IN  IF call.exc # NoExc
        THEN [exc |-> NoExc,
              info |-> [market_cap |-> Num(0), sector |-> "", industry |-> "",
                        beta |-> Num(10000), shares_outstanding |-> 0, avg_volume |-> 0,
                        dividend_yield |-> Num(0), short_pct_of_float |-> Num(0)],
              requests |-> call.requests]
        ELSE IF safe_float(data.SharesOutstanding, Num(0)).nan
        THEN [exc |-> [type |-> "ValueError", from |-> "int"], info |-> [raised |-> TRUE],
              requests |-> call.requests]
        ELSE [exc |-> NoExc,
              info |-> [market_cap |-> safe_float(data.MarketCapitalization, Num(0)),
                        sector |-> GetOrEmpty(data.Sector),
                        industry |-> GetOrEmpty(data.Industry),
                        beta |-> safe_float(data.Beta, Num(10000)),
                        shares_outstanding |-> int(safe_float(data.SharesOutstanding, Num(0))),
                        avg_volume |-> 0,
                        dividend_yield |-> safe_float(data.DividendYield, Num(0)),
                        short_pct_of_float |->
                            IF /\ Truthy(GetOrEmpty(data.ShortPercentFloat))
                               /\ data.ShortPercentFloat # "None"
                            THEN Div100(safe_float(data.ShortPercentFloat, Num(0)))
                            ELSE Num(0)],
              requests |-> call.requests]

FetchTickerInfo ==
    /\ av.constructed
    /\ avRet = NoAvRet
    /\ \E ticker \in Tickers, outcome \in OverviewOutcomes :
         LET r == fetch_ticker_info(outcome)
         IN  avRet' = [op |-> "info", ticker |-> ticker, outcome |-> outcome,
                       exc |-> r.exc, info |-> r.info, requests |-> r.requests]
    /\ UNCHANGED <<avModule, av>>
    /\ UNCHANGED <<factoryVars, apiVars, threadVars, historyVars, marketVars>>

(***************************************************************************)
(* alphavantage.py: fetch_risk_free_rate                                   *)
(***************************************************************************)
RateOutcomes ==
    LET RateTexts == {"absent", "", ".", "5.25", "0", "n/a", "NaN"}
        Point(text, value) == [date |-> text, value |-> value]
        RatePoints ==
            {<<>>}
            \cup {<<Point("2024-02-01", v)>> : v \in RateTexts}
            \cup {<<Point("2024-02-01", v), Point("2024-01-31", w)>> :
                     v \in RateTexts, w \in {".", "12.5"}}
        RatePayloads ==
            {[has_data |-> FALSE, points |-> <<>>]}
            \cup {[has_data |-> TRUE, points |-> pts] : pts \in RatePoints}
    IN  {[failures |-> f, payload |-> pl] : f \in FailureCounts \ {StopAfterAttempt},
                                            pl \in RatePayloads}
        \cup {[failures |-> StopAfterAttempt,
               payload |-> [has_data |-> FALSE, points |-> <<>>]]}

\* variant: the percentage is returned as it is
PercentToDecimalMissing(value) == float(value)

\* float(value) / 100.0
PercentToDecimal(value) == Div100(float(value))

\* fetch_risk_free_rate()
fetch_risk_free_rate(outcome) ==
    LET FallbackRate == Num(500)   \* the fallback 0.05
        call == api_call(outcome.failures)
        points == outcome.payload.points
    IN  IF call.exc # NoExc
        THEN [exc |-> NoExc, rate |-> FallbackRate, requests |-> call.requests]
        ELSE IF points = <<>>
        THEN [exc |-> NoExc, rate |-> FallbackRate, requests |-> call.requests]
        ELSE LET value == points[1].value
             IN  IF Truthy(GetOrEmpty(value)) /\ value # "."
                 THEN IF value \in FloatTexts
                      THEN [exc |-> NoExc, rate |-> PercentToDecimal(value),
                            requests |-> call.requests]
                      ELSE [exc |-> NoExc, rate |-> FallbackRate,
                            requests |-> call.requests]
                 ELSE [exc |-> NoExc, rate |-> FallbackRate, requests |-> call.requests]

FetchRiskFreeRate ==
    /\ av.constructed
    /\ avRet = NoAvRet
    /\ \E outcome \in RateOutcomes :
         LET r == fetch_risk_free_rate(outcome)
         IN  avRet' = [op |-> "rate", outcome |-> outcome,
                       exc |-> r.exc, rate |-> r.rate, requests |-> r.requests]
    /\ UNCHANGED <<avModule, av>>
    /\ UNCHANGED <<factoryVars, apiVars, threadVars, historyVars, marketVars>>

\* the caller takes the result of the last adapter operation
AvResume ==
    /\ avRet # NoAvRet
    /\ avRet' = NoAvRet
    /\ UNCHANGED <<avModule, av>>
    /\ UNCHANGED <<factoryVars, apiVars, threadVars, historyVars, marketVars>>

(***************************************************************************)
(* market_factory.py: get_market_provider(name) run by two threads with    *)
(* no lock.  A thread can be suspended between the test of the cache, the  *)
(* construction and the assignment to the cache.                           *)
(***************************************************************************)
ThreadIds == {1, 2}

IdleThread ==
    [pc |-> "idle", name |-> "", obj |-> NoInst, exc |-> NoExc,
     constructed |-> FALSE, after |-> {}]

\* variant: the assignment keeps an instance another thread stored first
\* and hands that one back
ThreadStoreSetdefault(c, name, obj) ==
    IF InCache(c, name)
    THEN [cache |-> c,
          obj |-> [inst |-> CacheGet(c, name).inst, cls |-> CacheGet(c, name).cls]]
    ELSE [cache |-> Store(c, name, {}, obj), obj |-> obj]

\* _provider_cache[name] = instance; return instance
ThreadStore(c, name, obj) == [cache |-> Store(c, name, {}, obj), obj |-> obj]

\* thread t enters get_market_provider(name)
ThreadCall(t) ==
    /\ threads[t].pc = "idle"
    /\ \E name \in RegNames :
         threads' = [threads EXCEPT ![t] =
                        [IdleThread EXCEPT !.pc = "check", !.name = name,
                            !.after = {u \in ThreadIds : threads[u].pc = "done"}]]
    /\ UNCHANGED <<provider_cache, nextId, sinceClear, stale, ret>>
    /\ UNCHANGED <<apiVars, avVars, historyVars, marketVars>>

\* if not kwargs and name in _provider_cache: return _provider_cache[name]
ThreadCheck(t) ==
    /\ threads[t].pc = "check"
    /\ threads' = [threads EXCEPT ![t] =
          IF CacheHit(provider_cache, threads[t].name, {})
          THEN [@ EXCEPT !.pc = "done",
                         !.obj = [inst |-> CacheGet(provider_cache, threads[t].name).inst,
                                  cls |-> CacheGet(provider_cache, threads[t].name).cls]]
          ELSE [@ EXCEPT !.pc = "construct"]]
    /\ UNCHANGED <<provider_cache, nextId, sinceClear, stale, ret>>
    /\ UNCHANGED <<apiVars, avVars, historyVars, marketVars>>

\* the loop finds the entry; import_module, getattr, instance = cls()
ThreadConstruct(t) ==
    /\ threads[t].pc = "construct"
    /\ nextId < MaxInst
    /\ \E env \in GetEnvs(threads[t].name) :
         LET entry == PROVIDER_REGISTRY[RegIndex(threads[t].name)]
             built == Construct(entry, {}, env)
         IN  IF built.exc # NoExc
             THEN /\ threads' = [threads EXCEPT ![t] =
                                    [@ EXCEPT !.pc = "done", !.exc = built.exc]]
                  /\ UNCHANGED nextId
             ELSE /\ threads' = [threads EXCEPT ![t] =
                                    [@ EXCEPT !.pc = "store", !.constructed = TRUE,
                                              !.obj = [inst |-> nextId + 1,
                                                       cls |-> entry.cls]]]
                  /\ nextId' = nextId + 1
    /\ UNCHANGED <<provider_cache, sinceClear, stale, ret>>
    /\ UNCHANGED <<apiVars, avVars, historyVars, marketVars>>

\* _provider_cache[name] = instance; return instance
ThreadReturn(t) ==
    /\ threads[t].pc = "store"
    /\ LET done == ThreadStore(provider_cache, threads[t].name, threads[t].obj)
       IN  /\ provider_cache' = done.cache
           /\ threads' = [threads EXCEPT ![t] = [@ EXCEPT !.pc = "done", !.obj = done.obj]]
    /\ UNCHANGED <<nextId, sinceClear, stale, ret>>
    /\ UNCHANGED <<apiVars, avVars, historyVars, marketVars>>

(***************************************************************************)
(* datetime: date.today(), date - timedelta(days=n)                        *)
(***************************************************************************)
Date(y, m, d) == [year |-> y, month |-> m, day |-> d]

\* days of the years before year y
DaysBeforeYear(y) ==
    (y - 1) * 365 + ((y - 1) \div 4) - ((y - 1) \div 100) + ((y - 1) \div 400)

DaysInMonth(y, m) ==
    IF m = 2 THEN (IF y % 4 = 0 /\ (y % 100 # 0 \/ y % 400 = 0) THEN 29 ELSE 28)
    ELSE IF m \in {4, 6, 9, 11} THEN 30 ELSE 31

RECURSIVE DaysBeforeMonth(_, _)
\* days of year y before its month m
DaysBeforeMonth(y, m) ==
    IF m = 1 THEN 0 ELSE DaysBeforeMonth(y, m - 1) + DaysInMonth(y, m - 1)

\* date.toordinal()
ToOrdinal(d) == DaysBeforeYear(d.year) + DaysBeforeMonth(d.year, d.month) + d.day

\* d - timedelta(days=n): date.fromordinal(d.toordinal() - n), the year, then
\* the month, then the day left over
MinusDays(d, n) ==
    LET o == ToOrdinal(d) - n
        y == CHOOSE yy \in ((o \div 366) + 1)..((o \div 365) + 1) :
                DaysBeforeYear(yy) < o /\ o <= DaysBeforeYear(yy + 1)
        r == o - DaysBeforeYear(y)
        m == CHOOSE mm \in 1..12 :
                DaysBeforeMonth(y, mm) < r /\ r <= DaysBeforeMonth(y, mm) + DaysInMonth(y, mm)
    IN  Date(y, m, r - DaysBeforeMonth(y, m))

(***************************************************************************)
(* provider.py: DataProvider.fetch_price_history over the abstract         *)
(* fetch_daily_prices of any subclass                                      *)
(***************************************************************************)
NoHistRet == [op |-> "none"]

\* date.today() at the time of the call
HistoryTodays == {Date(2024, 3, 1), Date(2025, 1, 30)}

\* the days argument (400 when it is not passed)
HistoryDays == {1, 5, 400}

\* a row of a table some fetch_daily_prices returned
StubRow(ticker, d) ==
    [date |-> d, ticker |-> ticker,
     open |-> Num(1000000), high |-> Num(1020000), low |-> Num(990000),
     close |-> Num(1010000 + 10000 * d.day), adj_close |-> Num(1010000),
     volume |-> Num(50000000)]

\* what the subclass's fetch_daily_prices does: it raises, returns None,
\* returns a table without one of the columns, or returns a table (its rows
\* in any order, for any tickers)
StubOutcomes ==
    {[kind |-> "raise", columns |-> {}, rows |-> <<>>],
     [kind |-> "None", columns |-> {}, rows |-> <<>>]}
    \cup {[kind |-> "table", columns |-> Elems(empty_schema) \ {c}, rows |-> <<>>] :
             c \in {"ticker", "date", "close"}}
    \cup {[kind |-> "table", columns |-> Elems(empty_schema) \ {"close"},
           rows |-> <<StubRow("AAPL", Date(2024, 1, 31))>>]}
    \cup {[kind |-> "table", columns |-> Elems(empty_schema), rows |-> rs] :
             rs \in UNION {[1..n -> {StubRow(t, d) : t \in Tickers, d \in Dates}] :
                            n \in 0..MaxRows}}

\* df.filter(pl.col("ticker") == ticker)
FilterTicker(rows, ticker) == SelectSeq(rows, LAMBDA r : r.ticker = ticker)

RECURSIVE InsertByDate(_, _)
InsertByDate(row, sorted) ==
    IF sorted = <<>> THEN <<row>>
    ELSE IF ToOrdinal(row.date) < ToOrdinal(Head(sorted).date) THEN <<row>> \o sorted
    ELSE <<Head(sorted)>> \o InsertByDate(row, Tail(sorted))

RECURSIVE SortByDate(_)
\* .sort("date")
SortByDate(rows) ==
    IF rows = <<>> THEN <<>> ELSE InsertByDate(Head(rows), SortByDate(Tail(rows)))

\* variant: the adjusted close is passed on as well
HistoryDictWithAdj(r) ==
    [date |-> r.date, open |-> r.open, high |-> r.high, low |-> r.low,
     close |-> r.close, adj_close |-> r.adj_close, volume |-> r.volume]

\* the dict built from one row
HistoryDict(r) ==
    [date |-> r.date, open |-> r.open, high |-> r.high, low |-> r.low,
     close |-> r.close, volume |-> r.volume]

\* fetch_price_history(ticker, days) on the day today
fetch_price_history(ticker, days, today, outcome) ==
    LET end   == today
        start == MinusDays(end, days)
        call  == [tickers |-> <<ticker>>, start |-> start, end |-> end]
    IN  IF outcome.kind = "raise"
        THEN [call |-> call, exc |-> NoExc, result |-> <<>>]
        ELSE IF outcome.kind = "None"
        THEN [call |-> call, exc |-> [type |-> "AttributeError", from |-> "filter"],
              result |-> <<>>]
        ELSE IF "ticker" \notin outcome.columns
        THEN [call |-> call, exc |-> [type |-> "ColumnNotFoundError", from |-> "filter"],
              result |-> <<>>]
        ELSE IF "date" \notin outcome.columns
        THEN [call |-> call, exc |-> [type |-> "ColumnNotFoundError", from |-> "sort"],
              result |-> <<>>]
        ELSE LET rows == SortByDate(FilterTicker(outcome.rows, ticker))
             IN  IF /\ rows # <<>>
                    /\ ~({"open", "high", "low", "close", "volume"} \subseteq outcome.columns)
                 THEN [call |-> call, exc |-> [type |-> "KeyError", from |-> "row"],
                       result |-> <<>>]
                 ELSE [call |-> call, exc |-> NoExc,
                       result |-> [i \in DOMAIN rows |-> HistoryDict(rows[i])]]

FetchPriceHistory ==
    /\ histRet = NoHistRet
    /\ \E ticker \in Tickers, days \in HistoryDays, today \in HistoryTodays,
          outcome \in StubOutcomes :
         LET r == fetch_price_history(ticker, days, today, outcome)
         IN  histRet' = [op |-> "history", ticker |-> ticker, days |-> days,
                         today |-> today, outcome |-> outcome, call |-> r.call,
                         exc |-> r.exc, result |-> r.result]
    /\ UNCHANGED <<factoryVars, apiVars, avVars, threadVars, marketVars>>

\* the caller takes the result
HistoryResume ==
    /\ histRet # NoHistRet
    /\ histRet' = NoHistRet
    /\ UNCHANGED <<factoryVars, apiVars, avVars, threadVars, marketVars>>

(***************************************************************************)
(* alphavantage_market.py: AlphaVantageMarketProvider, one instance after  *)
(* its construction.  overview_cache is self._overview_cache, a mapping    *)
(* ticker -> body kept as a sequence of entries in insertion order.        *)
(***************************************************************************)
NoMkRet == [op |-> "none"]

\* bodies of a successful OVERVIEW request: an empty object (also the {}
\* of a failed lookup) and a complete object
EmptyObject == [shape |-> "object", fields |-> <<>>]

FullObject ==
    [shape |-> "object",
     fields |-> [k \in {"Name", "Sector", "Industry", "MarketCapitalization", "Currency",
                        "Exchange", "Description", "FullTimeEmployees", "Country",
                        "TrailingPE", "Beta"} |->
                   CASE k = "Name" -> "Apple Inc"
                     [] k = "Sector" -> "Technology"
                     [] k = "Industry" -> "Software"
                     [] k = "MarketCapitalization" -> "187.5"
                     [] k = "Currency" -> "USD"
                     [] k = "Exchange" -> "NASDAQ"
                     [] k = "Description" -> "Maker of devices"
                     [] k = "FullTimeEmployees" -> "1000"
                     [] k = "Country" -> "USA"
                     [] k = "TrailingPE" -> "12.5"
                     [] k = "Beta" -> "0"]]

\* what the server does with one OVERVIEW call; besides the two bodies
\* above, an object with sentinel and non-numeric texts and a body that is
\* a JSON array instead of an object
MkOverviewOutcomes ==
    LET SparseObject ==
            [shape |-> "object",
             fields |-> [k \in {"Name", "MarketCapitalization", "FullTimeEmployees",
                                "TrailingPE"} |->
                           CASE k = "Name" -> "Apple Inc"
                             [] k = "MarketCapitalization" -> "None"
                             [] k = "FullTimeEmployees" -> "12.5"
                             [] k = "TrailingPE" -> "n/a"]]
        ArrayBody == [shape |-> "array", fields |-> <<>>]
    IN  {[failures |-> f, body |-> b] :
            f \in FailureCounts \ {StopAfterAttempt},
            b \in {EmptyObject, FullObject, SparseObject, ArrayBody}}
        \cup {[failures |-> StopAfterAttempt, body |-> EmptyObject]}

InOverviewCache(c, ticker) == \E i \in DOMAIN c : c[i].ticker = ticker

OverviewCacheGet(c, ticker) == c[CHOOSE i \in DOMAIN c : c[i].ticker = ticker].data

\* variant: the empty dict of a failed lookup is stored like a response
get_overview_storing_failure(c, ticker, outcome) ==
    IF InOverviewCache(c, ticker)
    THEN [data |-> OverviewCacheGet(c, ticker), cache |-> c, requests |-> 0, failed |-> FALSE]
    ELSE LET call == api_call(outcome.failures)
         IN  IF call.exc = NoExc
             THEN [data |-> outcome.body,
                   cache |-> Append(c, [ticker |-> ticker, data |-> outcome.body]),
                   requests |-> call.requests, failed |-> FALSE]
             ELSE [data |-> EmptyObject,
                   cache |-> Append(c, [ticker |-> ticker, data |-> EmptyObject]),
                   requests |-> call.requests, failed |-> TRUE]

\* _get_overview(ticker)
get_overview(c, ticker, outcome) ==
    IF InOverviewCache(c, ticker)
    THEN [data |-> OverviewCacheGet(c, ticker), cache |-> c, requests |-> 0, failed |-> FALSE]
    ELSE LET call == api_call(outcome.failures)
         IN  IF call.exc = NoExc
             THEN [data |-> outcome.body,
                   cache |-> Append(c, [ticker |-> ticker, data |-> outcome.body]),
                   requests |-> call.requests, failed |-> FALSE]
             ELSE [data |-> EmptyObject, cache |-> c,
                   requests |-> call.requests, failed |-> TRUE]

\* ov.get(key, default), for an object
DictGet(ov, key, default) ==
    IF key \in DOMAIN ov.fields THEN ov.fields[key] ELSE default

\* _safe_int(data, key, default), val being data.get(key) ("absent": None);
\* int() accepts the texts "1000" and "0" of the bodies above
safe_int(val, default) ==
    IF val \in {"absent", "None", "-", ""} THEN default
    ELSE IF val = "1000" THEN 1000
    ELSE IF val = "0" THEN 0
    ELSE default

\* the optional float None
NoFloat == [nan |-> FALSE, v |-> -1]

\* _safe_float_or_none(data, key), val being data.get(key)
safe_float_or_none(val) ==
    IF val \in {"absent", "None", "-", "", "0"} THEN NoFloat
    ELSE IF val \in FloatTexts THEN float(val)
    ELSE NoFloat

\* _format_large_number(n): None for 0, a text otherwise (the amounts of
\* the bodies above are below 1e6 and take the plain format)
format_large_number(x) == IF ~x.nan /\ x.v = 0 THEN "None" ELSE "$plain"

\* the methods whose body is inside try/except Exception
LocalCatch ==
    {"get_company_overview", "get_price_data", "get_fundamentals",
     "get_earnings_history", "get_quarterly_earnings", "get_history"}

AttributeError == [type |-> "AttributeError", from |-> "get"]

\* {"ticker": ticker, "error": str(e)}
ErrorDict(ticker, exc) == [ticker |-> ticker, error |-> exc.type]

\* get_ticker_object(ticker)
get_ticker_object(ticker) ==
    [exc |-> NoExc, result |-> [ticker |-> ticker, provider |-> "alphavantage"]]

\* get_insider_transactions(ticker)
get_insider_transactions(ticker) == [exc |-> NoExc, result |-> [none |-> TRUE]]

\* get_company_overview(ticker): body is the try block
get_company_overview(c, ticker, outcome) ==
    LET body ==
            LET look == get_overview(c, ticker, outcome)
                ov   == look.data
            IN  IF ov.shape # "object"
                THEN [exc |-> AttributeError, result |-> [none |-> TRUE], look |-> look]
                ELSE [exc |-> NoExc,
                      result |->
                         [ticker |-> ticker,
                          name |-> DictGet(ov, "Name", ticker),
                          sector |-> DictGet(ov, "Sector", "Unknown"),
                          industry |-> DictGet(ov, "Industry", "Unknown"),
                          market_cap |-> safe_float(DictGet(ov, "MarketCapitalization", "absent"),
                                                    Num(0)),
                          market_cap_formatted |->
                             format_large_number(
                                safe_float(DictGet(ov, "MarketCapitalization", "absent"), Num(0))),
                          currency |-> DictGet(ov, "Currency", "USD"),
                          exchange |-> DictGet(ov, "Exchange", "Unknown"),
                          description |-> DictGet(ov, "Description", ""),
                          website |-> "",
                          employees |-> safe_int(DictGet(ov, "FullTimeEmployees", "absent"), 0),
                          country |-> DictGet(ov, "Country", "Unknown")],
                      look |-> look]
    IN  IF body.exc # NoExc /\ "get_company_overview" \in LocalCatch
        THEN [exc |-> NoExc, result |-> ErrorDict(ticker, body.exc), look |-> body.look]
        ELSE body

\* get_info(ticker): no try around the body
get_info(c, ticker, outcome) ==
    LET look == get_overview(c, ticker, outcome)
        ov   == look.data
    IN  IF ov.shape # "object"
        THEN [exc |-> AttributeError, result |-> [none |-> TRUE], look |-> look]
        ELSE [exc |-> NoExc,
              result |->
                 [longName |-> DictGet(ov, "Name", ticker),
                  shortName |-> DictGet(ov, "Name", ticker),
                  sector |-> DictGet(ov, "Sector", "Unknown"),
                  industry |-> DictGet(ov, "Industry", "Unknown"),
                  marketCap |-> safe_float(DictGet(ov, "MarketCapitalization", "absent"),
                                           Num(0)),
                  trailingPE |-> safe_float_or_none(DictGet(ov, "TrailingPE", "absent")),
                  beta |-> safe_float_or_none(DictGet(ov, "Beta", "absent")),
                  description |-> DictGet(ov, "Description", ""),
                  country |-> DictGet(ov, "Country", "Unknown"),
                  exchange |-> DictGet(ov, "Exchange", "Unknown"),
                  currency |-> DictGet(ov, "Currency", "USD")],
              look |-> look]

\* the record of one call that looked the overview up
OverviewRet(op, ticker, outcome, r) ==
    [op |-> op, ticker |-> ticker, ovOutcome |-> outcome,
     exc |-> r.exc, result |-> r.result,
     ov |-> r.look.data, ovRequests |-> r.look.requests, ovFailed |-> r.look.failed]

GetTickerObject ==
    /\ mkRet = NoMkRet
    /\ \E ticker \in Tickers :
         LET r == get_ticker_object(ticker)
         IN  mkRet' = [op |-> "get_ticker_object", ticker |-> ticker,
                       exc |-> r.exc, result |-> r.result]
    /\ UNCHANGED overview_cache
    /\ UNCHANGED <<factoryVars, apiVars, avVars, threadVars, historyVars>>

GetInsiderTransactions ==
    /\ mkRet = NoMkRet
    /\ \E ticker \in Tickers :
         LET r == get_insider_transactions(ticker)
         IN  mkRet' = [op |-> "get_insider_transactions", ticker |-> ticker,
                       exc |-> r.exc, result |-> r.result]
    /\ UNCHANGED overview_cache
    /\ UNCHANGED <<factoryVars, apiVars, avVars, threadVars, historyVars>>

GetCompanyOverview ==
    /\ mkRet = NoMkRet
    /\ \E ticker \in Tickers, outcome \in MkOverviewOutcomes :
         LET r == get_company_overview(overview_cache, ticker, outcome)
         IN  /\ overview_cache' = r.look.cache
             /\ mkRet' = OverviewRet("get_company_overview", ticker, outcome, r)
    /\ UNCHANGED <<factoryVars, apiVars, avVars, threadVars, historyVars>>

GetInfo ==
    /\ mkRet = NoMkRet
    /\ \E ticker \in Tickers, outcome \in MkOverviewOutcomes :
         LET r == get_info(overview_cache, ticker, outcome)
         IN  /\ overview_cache' = r.look.cache
             /\ mkRet' = OverviewRet("get_info", ticker, outcome, r)
    /\ UNCHANGED <<factoryVars, apiVars, avVars, threadVars, historyVars>>

\* _period_to_days(period)
period_to_days(period) ==
    CASE period = "1mo" -> 30
      [] period = "3mo" -> 90
      [] period = "6mo" -> 180
      [] period = "1y" -> 365
      [] period = "2y" -> 730
      [] period = "5y" -> 1825
      [] period = "10y" -> 3650
      [] period = "ytd" -> 180
      [] period = "max" -> 3650
      [] OTHER -> 180

\* the period tokens passed: the nine of the table and two others
PeriodTokens ==
    {"1mo", "3mo", "6mo", "1y", "2y", "5y", "10y", "ytd", "max", "1d", ""}

\* the days on which get_history is called
MarketTodays ==
    {Date(2024, 3, 1), Date(2024, 4, 30), Date(2024, 7, 29), Date(2025, 1, 30),
     Date(2026, 1, 30), Date(2029, 1, 29), Date(2034, 1, 28)}

\* what the server does with one TIME_SERIES_DAILY_ADJUSTED call: the bodies
\* of DailyPayloads, a series out of order with bars whose adjusted close
\* differs from their close, a bar whose volume is not a number, and a
\* series with an old bar only
MarketOutcomes ==
    LET AdjBar ==
            [k \in BarKeys |-> CASE k = "5. adjusted close" -> "12.5"
                                 [] k = "6. volume" -> "1000"
                                 [] OTHER -> "5.25"]
        NanVolumeBar == [k \in BarKeys |-> IF k = "6. volume" THEN "NaN" ELSE "187.5"]
        MarketPayloads ==
            DailyPayloads \cup
            { [has_ts |-> TRUE, series |-> << Entry("2024-01-31", AdjBar),
                                              Entry("2024-02-01", GoodBar),
                                              Entry("2024-01-30", AdjBar) >>],
              [has_ts |-> TRUE, series |-> << Entry("2024-02-01", NanVolumeBar) >>],
              [has_ts |-> TRUE, series |-> << Entry("2024-01-30", GoodBar) >>] }
    IN  {[failures |-> 0, payload |-> pl] : pl \in MarketPayloads}
        \cup {[failures |-> StopAfterAttempt,
               payload |-> [has_ts |-> FALSE, series |-> <<>>]]}

\* pd.DataFrame()
EmptyFrame == [index |-> "RangeIndex", columns |-> <<>>, rows |-> <<>>]

\* variant: the bar of the cutoff day is skipped too
BeforeCutoffInclusive(bar_date, cutoff) == ~DateLess(cutoff, bar_date)

\* bar_date < cutoff
BeforeCutoff(bar_date, cutoff) == DateLess(bar_date, cutoff)

RECURSIVE HistoryRowsFrom(_, _, _)
\* the loop over data[ts_key].items() of get_history, from entry i on
HistoryRowsFrom(series, i, cutoff) ==
    IF i > Len(series)
    THEN [exc |-> NoExc, rows |-> <<>>]
    ELSE LET e == series[i]
             keys == {"1. open", "2. high", "3. low", "5. adjusted close", "6. volume"}
         IN  IF e.date_str \notin IsoTexts
             THEN [exc |-> [type |-> "ValueError", from |-> "fromisoformat"], rows |-> <<>>]
             ELSE IF BeforeCutoff(fromisoformat(e.date_str), cutoff)
             THEN HistoryRowsFrom(series, i + 1, cutoff)
             ELSE IF ~(keys \subseteq DOMAIN e.bar)
             THEN [exc |-> [type |-> "KeyError", from |-> "bar"], rows |-> <<>>]
             ELSE IF \E k \in keys : e.bar[k] \notin FloatTexts
             THEN [exc |-> [type |-> "ValueError", from |-> "float"], rows |-> <<>>]
             ELSE IF float(e.bar["6. volume"]).nan
             THEN [exc |-> [type |-> "ValueError", from |-> "int"], rows |-> <<>>]
             ELSE LET rest == HistoryRowsFrom(series, i + 1, cutoff)
                  IN  IF rest.exc # NoExc
                      THEN rest
                      ELSE [exc |-> NoExc,
                            rows |-> << [Date |-> fromisoformat(e.date_str),
                                         Open |-> float(e.bar["1. open"]),
                                         High |-> float(e.bar["2. high"]),
                                         Low |-> float(e.bar["3. low"]),
                                         Close |-> float(e.bar["5. adjusted close"]),
                                         Volume |-> int(float(e.bar["6. volume"]))] >>
                                      \o rest.rows]

\* get_history(ticker, period) on the day today: body is the try block,
\* SortValuesDate is df.sort_values("Date")
get_history(ticker, period, today, outcome) ==
    LET RECURSIVE SortValuesDate(_)
        SortValuesDate(rows) ==
            IF rows = <<>> THEN <<>>
            ELSE LET sorted == SortValuesDate(Tail(rows))
                     before == SelectSeq(sorted, LAMBDA r : DateLess(r.Date, Head(rows).Date))
                     after  == SelectSeq(sorted, LAMBDA r : ~DateLess(r.Date, Head(rows).Date))
                 IN  before \o <<Head(rows)>> \o after
        call   == api_call(outcome.failures)
        days   == period_to_days(period)
        cutoff == MinusDays(today, days)
        r      == HistoryRowsFrom(outcome.payload.series, 1, cutoff)
        body   ==
            IF call.exc # NoExc
            THEN [exc |-> call.exc, table |-> EmptyFrame, requests |-> call.requests]
            ELSE IF ~outcome.payload.has_ts
            THEN [exc |-> NoExc, table |-> EmptyFrame, requests |-> call.requests]
            ELSE IF r.exc # NoExc
            THEN [exc |-> r.exc, table |-> EmptyFrame, requests |-> call.requests]
            ELSE IF r.rows = <<>>
            THEN [exc |-> NoExc, table |-> EmptyFrame, requests |-> call.requests]
            ELSE [exc |-> NoExc,
                  table |-> [index |-> "Date",
                             columns |-> <<"Open", "High", "Low", "Close", "Volume">>,
                             rows |-> SortValuesDate(r.rows)],
                  requests |-> call.requests]
    IN  IF body.exc # NoExc /\ "get_history" \in LocalCatch
        THEN [exc |-> NoExc, result |-> EmptyFrame, caught |-> body.exc,
              requests |-> body.requests]
        ELSE [exc |-> body.exc, result |-> body.table, caught |-> NoExc,
              requests |-> body.requests]

\* n / d rounded to the nearest integer, d > 0 (no tie arises for the
\* prices of the bars above)
RoundDiv(n, d) == (2 * n + d) \div (2 * d)

\* get_price_data(ticker, period), h being what its call of
\* self.get_history(ticker, period) returned: body is the try block;
\* Round2 is round(x, 2) and PctChange round((a / b - 1) * 100, 2), the
\* prices of the bars being numbers with at most two decimals
get_price_data(ticker, period, h) ==
    LET Round2(x) == Num(RoundDiv(x.v, 100) * 100)
        PctChange(a, b) == Num(RoundDiv(100 * (a.v - b.v), b.v \div 100) * 100)
        RECURSIVE SumVolume(_)
        SumVolume(rs) == IF rs = <<>> THEN 0 ELSE Head(rs).Volume + SumVolume(Tail(rs))
        rows == h.result.rows
        closes        == {r.Close : r \in Elems(rows)}
        current_price == rows[Len(rows)].Close
        start_price   == rows[1].Close
        high_52w      == CHOOSE x \in closes : \A y \in closes : y.v <= x.v
        low_52w       == CHOOSE x \in closes : \A y \in closes : x.v <= y.v
        avg_volume    == SumVolume(rows) \div Len(rows)
        body ==
            IF h.exc # NoExc
            THEN [exc |-> h.exc, result |-> [none |-> TRUE], requests |-> h.requests]
            ELSE IF rows = <<>>
            THEN [exc |-> NoExc,
                  result |-> [ticker |-> ticker, error |-> "No price data available"],
                  requests |-> h.requests]
            ELSE IF start_price.v = 0 \/ high_52w.v = 0 \/ low_52w.v = 0
            THEN [exc |-> [type |-> "ZeroDivisionError", from |-> "pct"],
                  result |-> [none |-> TRUE], requests |-> h.requests]
            ELSE [exc |-> NoExc,
                  result |->
                     [ticker |-> ticker,
                      current_price |-> Round2(current_price),
                      period_return_pct |-> PctChange(current_price, start_price),
                      high_52w |-> Round2(high_52w),
                      low_52w |-> Round2(low_52w),
                      pct_from_high |-> PctChange(current_price, high_52w),
                      pct_from_low |-> PctChange(current_price, low_52w),
                      avg_daily_volume |-> avg_volume,
                      avg_volume_formatted |->
                         format_large_number(Num(avg_volume * 10000)),
                      period |-> period,
                      data_points |-> Len(rows)],
                  requests |-> h.requests]
    IN  IF body.exc # NoExc /\ "get_price_data" \in LocalCatch
        THEN [exc |-> NoExc, result |-> ErrorDict(ticker, body.exc),
              requests |-> body.requests]
        ELSE body

GetHistory ==
    /\ mkRet = NoMkRet
    /\ \E ticker \in Tickers, period \in PeriodTokens, today \in MarketTodays,
          outcome \in MarketOutcomes :
         LET r == get_history(ticker, period, today, outcome)
         IN  mkRet' = [op |-> "get_history", ticker |-> ticker, period |-> period,
                       today |-> today, outcome |-> outcome,
                       exc |-> r.exc, result |-> r.result, caught |-> r.caught,
                       requests |-> r.requests]
    /\ UNCHANGED overview_cache
    /\ UNCHANGED <<factoryVars, apiVars, avVars, threadVars, historyVars>>

GetPriceData ==
    /\ mkRet = NoMkRet
    /\ \E ticker \in Tickers, period \in {"1mo", "6mo"},
          today \in {Date(2024, 3, 1), Date(2024, 7, 29)}, outcome \in MarketOutcomes :
         \E h \in {get_history(ticker, period, today, outcome)} :
            \E r \in {get_price_data(ticker, period, h)} :
               mkRet' = [op |-> "get_price_data", ticker |-> ticker, period |-> period,
                         today |-> today, outcome |-> outcome,
                         exc |-> r.exc, result |-> r.result, requests |-> r.requests]
    /\ UNCHANGED overview_cache
    /\ UNCHANGED <<factoryVars, apiVars, avVars, threadVars, historyVars>>

\* annualReports of INCOME_STATEMENT and of BALANCE_SHEET, newest first,
\* and what the server does with one statement call
StatementOutcomes ==
    LET IncomeReports ==
            { <<>>,
              << [k \in {"totalRevenue"} |-> "1000"] >>,
              << [k \in {"totalRevenue"} |-> "1000"],
                 [k \in {"totalRevenue"} |-> "187.5"] >> }
        BalanceReports ==
            { <<>>,
              << [k \in {"shortTermDebt", "longTermDebt", "totalCurrentAssets",
                         "totalCurrentLiabilities"} |->
                    CASE k = "shortTermDebt" -> "12.5"
                      [] k = "longTermDebt" -> "5.25"
                      [] k = "totalCurrentAssets" -> "1000"
                      [] k = "totalCurrentLiabilities" -> "187.5"] >>,
              << [k \in {"totalCurrentAssets", "totalCurrentLiabilities"} |->
                    IF k = "totalCurrentAssets" THEN "1000" ELSE "0"] >> }
        Outcomes(reports) ==
            {[failures |-> 0, reports |-> r] : r \in reports}
            \cup {[failures |-> StopAfterAttempt, reports |-> <<>>]}
    IN  [income |-> Outcomes(IncomeReports), balance |-> Outcomes(BalanceReports)]

\* get_fundamentals(ticker): body is the try block, get_statement is
\* _get_income_statement and _get_balance_sheet, LatestGet the .get(key) of
\* the newest report ({} when there is none), OrNone "x if x else None";
\* of the keys read from the overview the same way only pe_trailing is kept
get_fundamentals(c, ticker, outcome, incomeOutcome, balanceOutcome) ==
    LET get_statement(o) ==
            LET call == api_call(o.failures)
            IN  IF call.exc # NoExc
                THEN [reports |-> <<>>, requests |-> call.requests]
                ELSE [reports |-> o.reports, requests |-> call.requests]
        LatestGet(reports, key) ==
            IF reports = <<>> THEN "absent"
            ELSE IF key \in DOMAIN reports[1] THEN reports[1][key] ELSE "absent"
        OrNone(x) == IF ~x.nan /\ x.v = 0 THEN NoFloat ELSE x
        look    == get_overview(c, ticker, outcome)
        ov      == look.data
        income  == get_statement(incomeOutcome)
        balance == get_statement(balanceOutcome)
        revenue == safe_float(LatestGet(income.reports, "totalRevenue"), Num(0))
        shortTermDebt == safe_float(LatestGet(balance.reports, "shortTermDebt"), Num(0))
        longTermDebt  == safe_float(LatestGet(balance.reports, "longTermDebt"), Num(0))
        total_debt ==
            IF shortTermDebt.nan \/ longTermDebt.nan THEN NaN
            ELSE Num(shortTermDebt.v + longTermDebt.v)
        current_assets ==
            safe_float(LatestGet(balance.reports, "totalCurrentAssets"), Num(0))
        current_liabilities ==
            safe_float(LatestGet(balance.reports, "totalCurrentLiabilities"), Num(0))
        current_ratio ==
            IF ~current_liabilities.nan /\ current_liabilities.v > 0
            THEN (IF current_assets.nan THEN NaN
                  ELSE Num(RoundDiv(current_assets.v * 100, current_liabilities.v) * 100))
            ELSE NoFloat
        statementRequests == income.requests + balance.requests
        body ==
            IF ov.shape # "object"
            THEN [exc |-> AttributeError, result |-> [none |-> TRUE], look |-> look,
                  requests |-> statementRequests]
            ELSE [exc |-> NoExc,
                  result |->
                     [ticker |-> ticker,
                      pe_trailing |->
                         safe_float_or_none(DictGet(ov, "TrailingPE", "absent")),
                      revenue |-> OrNone(revenue),
                      total_debt |-> OrNone(total_debt),
                      current_ratio |-> current_ratio],
                  look |-> look, requests |-> statementRequests]
    IN  IF body.exc # NoExc /\ "get_fundamentals" \in LocalCatch
        THEN [exc |-> NoExc, result |-> ErrorDict(ticker, body.exc), look |-> body.look,
              requests |-> body.requests]
        ELSE body

\* what the server does with one EARNINGS call: bodies without the
\* quarterlyEarnings key or with a list of entries: complete, with the text
\* None, with a text that is not a number
EarningsOutcomes ==
    LET GoodQuarter ==
            [k \in {"fiscalDateEnding", "reportedDate", "estimatedEPS", "reportedEPS",
                    "surprisePercentage"} |->
               CASE k = "fiscalDateEnding" -> "2024-01-31"
                 [] k = "reportedDate" -> "2024-02-01"
                 [] k = "estimatedEPS" -> "5.25"
                 [] k = "reportedEPS" -> "12.5"
                 [] k = "surprisePercentage" -> "187.5"]
        NoneQuarter ==
            [k \in {"fiscalDateEnding", "reportedEPS"} |->
               IF k = "fiscalDateEnding" THEN "2024-01-30" ELSE "None"]
        TextQuarter ==
            [k \in {"fiscalDateEnding", "reportedDate", "reportedEPS"} |->
               IF k = "reportedEPS" THEN "n/a" ELSE "2024-01-31"]
        EarningsPayloads ==
            { [has_quarterly |-> FALSE, quarterly |-> <<>>],
              [has_quarterly |-> TRUE, quarterly |-> <<>>],
              [has_quarterly |-> TRUE, quarterly |-> <<GoodQuarter>>],
              [has_quarterly |-> TRUE, quarterly |-> <<GoodQuarter, NoneQuarter>>],
              [has_quarterly |-> TRUE, quarterly |-> <<GoodQuarter, TextQuarter>>] }
    IN  {[failures |-> f, payload |-> pl] : f \in FailureCounts \ {StopAfterAttempt},
                                            pl \in EarningsPayloads}
        \cup {[failures |-> StopAfterAttempt,
               payload |-> [has_quarterly |-> FALSE, quarterly |-> <<>>]]}

\* pandas None
NoFrame == [none |-> TRUE]

\* get_earnings_history(ticker), get_quarterly_earnings(ticker): body is the
\* try block, RowsFrom the loop over quarterlyEarnings from entry i on,
\* QuarterGet q.get(key) ("absent" for None), OptionalFloat
\* "float(x) if x and x != 'None' else None"
get_earnings(method, outcome) ==
    LET QuarterGet(q, key) == IF key \in DOMAIN q THEN q[key] ELSE "absent"
        Convertible(text) == text \notin {"absent", "", "None"}
        OptionalFloat(text) == IF Convertible(text) THEN float(text) ELSE NoFloat
        keys == IF method = "get_earnings_history"
                THEN {"estimatedEPS", "reportedEPS", "surprisePercentage"}
                ELSE {"reportedEPS"}
        RowOf(q) ==
            IF method = "get_earnings_history"
            THEN [EarningsDate |-> IF "reportedDate" \in DOMAIN q
                                   THEN q["reportedDate"] ELSE "",
                  EPSEstimate |-> OptionalFloat(QuarterGet(q, "estimatedEPS")),
                  ReportedEPS |-> OptionalFloat(QuarterGet(q, "reportedEPS")),
                  SurprisePct |-> OptionalFloat(QuarterGet(q, "surprisePercentage"))]
            ELSE [Quarter |-> IF "fiscalDateEnding" \in DOMAIN q
                              THEN q["fiscalDateEnding"] ELSE "",
                  Earnings |-> OptionalFloat(QuarterGet(q, "reportedEPS"))]
        quarterly == outcome.payload.quarterly
        raises == \E i \in DOMAIN quarterly : \E k \in keys :
                     /\ Convertible(QuarterGet(quarterly[i], k))
                     /\ QuarterGet(quarterly[i], k) \notin FloatTexts
        call == api_call(outcome.failures)
        body ==
            IF call.exc # NoExc
            THEN [exc |-> call.exc, result |-> NoFrame, requests |-> call.requests]
            ELSE IF ~outcome.payload.has_quarterly \/ quarterly = <<>>
            THEN [exc |-> NoExc, result |-> NoFrame, requests |-> call.requests]
            ELSE IF raises
            THEN [exc |-> [type |-> "ValueError", from |-> "float"], result |-> NoFrame,
                  requests |-> call.requests]
            ELSE [exc |-> NoExc,
                  result |-> [rows |-> [i \in DOMAIN quarterly |-> RowOf(quarterly[i])]],
                  requests |-> call.requests]
    IN  IF body.exc # NoExc /\ method \in LocalCatch
        THEN [exc |-> NoExc, result |-> NoFrame, requests |-> body.requests]
        ELSE body

GetFundamentals ==
    /\ mkRet = NoMkRet
    /\ \E ticker \in Tickers, outcome \in MkOverviewOutcomes,
          incomeOutcome \in StatementOutcomes.income,
          balanceOutcome \in StatementOutcomes.balance :
         LET r == get_fundamentals(overview_cache, ticker, outcome, incomeOutcome,
                                   balanceOutcome)
         IN  /\ overview_cache' = r.look.cache
             /\ mkRet' = OverviewRet("get_fundamentals", ticker, outcome, r)
                          @@ [incomeOutcome |-> incomeOutcome,
                              balanceOutcome |-> balanceOutcome,
                              requests |-> r.requests]
    /\ UNCHANGED <<factoryVars, apiVars, avVars, threadVars, historyVars>>

GetEarningsHistory ==
    /\ mkRet = NoMkRet
    /\ \E ticker \in Tickers, outcome \in EarningsOutcomes :
         LET r == get_earnings("get_earnings_history", outcome)
         IN  mkRet' = [op |-> "get_earnings_history", ticker |-> ticker,
                       outcome |-> outcome, exc |-> r.exc, result |-> r.result,
                       requests |-> r.requests]
    /\ UNCHANGED overview_cache
    /\ UNCHANGED <<factoryVars, apiVars, avVars, threadVars, historyVars>>

GetQuarterlyEarnings ==
    /\ mkRet = NoMkRet
    /\ \E ticker \in Tickers, outcome \in EarningsOutcomes :
         LET r == get_earnings("get_quarterly_earnings", outcome)
         IN  mkRet' = [op |-> "get_quarterly_earnings", ticker |-> ticker,
                       outcome |-> outcome, exc |-> r.exc, result |-> r.result,
                       requests |-> r.requests]
    /\ UNCHANGED overview_cache
    /\ UNCHANGED <<factoryVars, apiVars, avVars, threadVars, historyVars>>

\* the caller takes the result
MarketResume ==
    /\ mkRet # NoMkRet
    /\ mkRet' = NoMkRet
    /\ UNCHANGED overview_cache
    /\ UNCHANGED <<factoryVars, apiVars, avVars, threadVars, historyVars>>

(***************************************************************************)
(* The specifications                                                      *)
(***************************************************************************)
Init ==
    /\ FactoryInit
    /\ ApiInit
    /\ AvInit
    /\ threads = [t \in ThreadIds |-> IdleThread]
    /\ histRet = NoHistRet
    /\ overview_cache = <<>>
    /\ mkRet = NoMkRet

Next == Get \/ SafeGet \/ Available \/ ClearCache \/ Resume

Spec == Init /\ [][Next]_vars

NextApi == ApiCall \/ ApiAttempt \/ ApiSleep

SpecApi == Init /\ [][NextApi]_vars

\* every request returns or times out, and a sleep ends
FairSpecApi == SpecApi /\ WF_vars(ApiAttempt) /\ WF_vars(ApiSleep)

NextAv ==
    AvImport \/ AvConstruct \/ FetchDailyPrices \/ FetchTickerInfo
    \/ FetchRiskFreeRate \/ AvResume

SpecAv == Init /\ [][NextAv]_vars

NextThreads ==
    \E t \in ThreadIds :
       ThreadCall(t) \/ ThreadCheck(t) \/ ThreadConstruct(t) \/ ThreadReturn(t)

SpecThreads == Init /\ [][NextThreads]_vars

NextHistory == FetchPriceHistory \/ HistoryResume

SpecHistory == Init /\ [][NextHistory]_vars

NextMarket ==
    GetTickerObject \/ GetInsiderTransactions \/ GetCompanyOverview \/ GetInfo
    \/ GetHistory \/ GetPriceData \/ GetFundamentals
    \/ GetEarningsHistory \/ GetQuarterlyEarnings
    \/ MarketResume

SpecMarket == Init /\ [][NextMarket]_vars

(***************************************************************************)
(* Properties.  A step of an operation op is a step from ret = NoRet to    *)
(* ret'.op = op; unprimed variables are the state the call started in.     *)
(***************************************************************************)
Registered(name) == \E i \in DOMAIN PROVIDER_REGISTRY : PROVIDER_REGISTRY[i].name = name

Pos(name) == CHOOSE i \in DOMAIN PROVIDER_REGISTRY : PROVIDER_REGISTRY[i].name = name


Occurrences(l, x) == Cardinality({i \in DOMAIN l : l[i] = x})

\* the operation recorded in r returned from a no-argument get_market_provider(n)
ReturnedNoArg(r, n) ==
    /\ r.exc = NoExc
    /\ \/ r.op = "get" /\ r.name = n /\ r.kwargs = {}
       \/ r.op = "safe" /\ ~r.fallback /\ r.name = n /\ r.kwargs = {}
       \/ r.op = "safe" /\ r.fallback /\ n = "Yahoo Finance"

\* l is the registry-ordered list of the default plus the entries probed true
IsListing(l, env) ==
    /\ \A i \in DOMAIN l : Registered(l[i])
    /\ \A i, j \in DOMAIN l : i < j => Pos(l[i]) < Pos(l[j])
    /\ \A n \in RegNames :
          n \in Elems(l) <=> (n = "Yahoo Finance" \/ ProbeOutcome(env[n]) = "true")

\* the exception the construction of the entry name meets in env, NoExc if none
ConstructionFailure(env, name) ==
    IF env[name] = "modBroken" THEN ImportOutcome(env[name]) ELSE CtorOutcome(env[name])

\* C1 (as amended): over any sequence of factory operations, a no-argument
\* get_market_provider(name) that returns hands out the instance returned
\* since the last clear_cache() without constructing, and when none was
\* returned since the last clear_cache() (or ever) it constructs exactly one
\* instance, different from every instance that existed before; so two
\* no-argument calls return the identical instance iff no clear_cache() ran
\* between them, and at most one no-argument construction succeeds per name
\* between clears.
C1_SingletonBetweenClears ==
    [][\A n \in RegNames :
         (ret = NoRet /\ ReturnedNoArg(ret', n)) =>
            /\ sinceClear[n] # 0 => (ret'.obj.inst = sinceClear[n] /\ nextId' = nextId)
            /\ sinceClear[n] = 0 => /\ ret'.obj.inst \notin 1..nextId
                                    /\ ret'.obj.inst # stale[n]
                                    /\ nextId' = nextId + 1]_vars

\* C1 witness: a no-argument call returned after a clear_cache() that
\* followed an earlier no-argument return for the same name.
C1_Witness ==
    /\ ret.op = "get" /\ ret.kwargs = {} /\ ret.exc = NoExc
    /\ Registered(ret.name)
    /\ stale[ret.name] # 0
    /\ sinceClear[ret.name] = ret.obj.inst
    /\ ret.obj.inst # stale[ret.name]

\* C1 as stated: the above, and the constructor of a name runs once between
\* clears, i.e. no get_market_provider call runs the constructor of a name
\* for which an instance was already constructed since the last clear_cache().
C1_Original ==
    [][\A n \in RegNames :
         /\ (ret = NoRet /\ ReturnedNoArg(ret', n)) =>
               /\ sinceClear[n] # 0 => (ret'.obj.inst = sinceClear[n] /\ nextId' = nextId)
               /\ sinceClear[n] = 0 => ret'.obj.inst \notin 1..nextId
         /\ (ret = NoRet /\ ret'.op = "get" /\ ret'.name = n /\ ret'.ctorRuns > 0)
               => sinceClear[n] = 0]_vars

\* C2: a get_market_provider call with at least one constructor argument
\* runs the constructor, returns (when it returns) an instance that did not
\* exist before and is not the cached one, and leaves the cache unchanged.
C2_KwargsBypassCache ==
    [][(ret = NoRet /\ ret'.op = "get" /\ ret'.kwargs # {}) =>
         /\ provider_cache' = provider_cache
         /\ (Registered(ret'.name) /\ ret'.env[ret'.name] # "modBroken")
               => ret'.ctorRuns = 1
         /\ ret'.exc = NoExc =>
               /\ ret'.obj.inst \notin 1..nextId
               /\ \A i \in DOMAIN provider_cache' :
                     provider_cache'[i].inst # ret'.obj.inst]_vars

\* C2 witness: an argument-bearing call returned while an instance was
\* cached under the same name.
C2_Witness ==
    /\ ret.op = "get" /\ ret.kwargs # {} /\ ret.exc = NoExc
    /\ InCache(provider_cache, ret.name)
    /\ CacheGet(provider_cache, ret.name).inst # ret.obj.inst

\* C3: get_market_provider with a name that equals no registry display name
\* raises the lookup ValueError carrying the list available_market_providers()
\* returns at that moment; nothing is constructed and the cache is unchanged.
C3_UnknownNameRaises ==
    [][(ret = NoRet /\ ret'.op = "get" /\ ~Registered(ret'.name)) =>
         /\ ret'.exc = [type |-> "ValueError", from |-> "lookup"]
         /\ IsListing(ret'.listed, ret'.env)
         /\ ret'.ctorRuns = 0
         /\ ret'.obj = NoInst
         /\ nextId' = nextId
         /\ provider_cache' = provider_cache]_vars

\* C3 witness: an unknown name (one differing from a display name by case
\* only) was refused while one probed adapter was available and one was not.
C3_Witness ==
    /\ ret.op = "get" /\ ret.name = "bloomberg"
    /\ ret.exc.type = "ValueError"
    /\ Len(ret.listed) = 2
    /\ provider_cache # <<>>

\* C4: get_market_provider_safe with a name other than the default: when the
\* inner get_market_provider raised, whatever the exception, and the default
\* adapter can be constructed, the call raises nothing and returns an
\* instance of the default adapter.
C4_SafeFallsBack ==
    [][(/\ ret = NoRet /\ ret'.op = "safe"
        /\ ret'.name # "Yahoo Finance"
        /\ ret'.firstExc # NoExc
        /\ ConstructionFailure(ret'.env, "Yahoo Finance") = NoExc) =>
         /\ ret'.exc = NoExc
         /\ ret'.obj.cls = "YahooMarketProvider"
         /\ ret'.obj.inst # 0]_vars

\* C4 witness: a connection failure of a registered adapter was turned into
\* a default-adapter instance.
C4_Witness ==
    /\ ret.op = "safe" /\ ret.name = "Bloomberg"
    /\ ret.firstExc.type = "ConnectionError"
    /\ ret.exc = NoExc
    /\ ret.obj.cls = "YahooMarketProvider"

\* C5: get_market_provider_safe with the default name: when the construction
\* of the default adapter fails, that exception reaches the caller, the
\* constructor is not tried a second time and the cache is unchanged.
C5_SafeDefaultPropagates ==
    [][(/\ ret = NoRet /\ ret'.op = "safe"
        /\ ret'.name = "Yahoo Finance"
        /\ ~(ret'.kwargs = {} /\ InCache(provider_cache, "Yahoo Finance"))
        /\ ConstructionFailure(ret'.env, "Yahoo Finance") # NoExc) =>
         /\ ret'.exc = ConstructionFailure(ret'.env, "Yahoo Finance")
         /\ ret'.ctorRuns <= 1
         /\ ~ret'.fallback
         /\ nextId' = nextId
         /\ provider_cache' = provider_cache]_vars

\* C5 witness: the default was requested through the safe variant and its
\* constructor raised.
C5_Witness ==
    /\ ret.op = "safe" /\ ret.name = "Yahoo Finance"
    /\ ret.exc.from = "ctor"
    /\ ret.ctorRuns = 1

\* C6: when the constructor of a registered adapter raises inside
\* get_market_provider, the caller gets that exception with its own type and
\* the cache is unchanged; a no-argument call for a name that is not cached
\* runs the constructor (again).
C6_CtorFailurePropagates ==
    [][(ret = NoRet /\ ret'.op = "get" /\ Registered(ret'.name)
        /\ ~(ret'.kwargs = {} /\ InCache(provider_cache, ret'.name))
        /\ ret'.env[ret'.name] # "modBroken") =>
         /\ ret'.ctorRuns = 1
         /\ CtorOutcome(ret'.env[ret'.name]) # NoExc =>
               /\ ret'.exc = CtorOutcome(ret'.env[ret'.name])
               /\ ret'.exc.from = "ctor"
               /\ ret'.obj = NoInst
               /\ nextId' = nextId
               /\ provider_cache' = provider_cache]_vars

\* C6 witness: a no-argument call for a registered name met a constructor
\* that raised for a missing dependency, and the name is not cached.
C6_Witness ==
    /\ ret.op = "get" /\ ret.kwargs = {} /\ ret.name = "Interactive Brokers"
    /\ ret.exc = [type |-> "ImportError", from |-> "ctor"]
    /\ ~InCache(provider_cache, ret.name)

\* C7: available_market_providers() returns, in registry order, the default
\* name and exactly the other names whose probe returned true (a probe that
\* raises counts as false); it raises nothing and leaves the cache unchanged.
C7_AvailableListing ==
    [][(ret = NoRet /\ ret'.op = "available") =>
         /\ ret'.exc = NoExc
         /\ IsListing(ret'.listed, ret'.env)
         /\ provider_cache' = provider_cache
         /\ nextId' = nextId]_vars

\* C7 witness: one probe raised, the other returned true, and the cache was
\* not empty.
C7_Witness ==
    /\ ret.op = "available"
    /\ ProbeOutcome(ret.env["Bloomberg"]) = "raise"
    /\ ProbeOutcome(ret.env["Interactive Brokers"]) = "true"
    /\ ret.listed = <<"Yahoo Finance", "Interactive Brokers">>
    /\ provider_cache # <<>>

\* C8: clear_cache() calls close() exactly once on every cached instance
\* that has a close attribute and on no other, raises nothing even when a
\* close() raised, and leaves the cache empty.
C8_ClearCloses ==
    [][(ret = NoRet /\ ret'.op = "clear") =>
         /\ provider_cache' = <<>>
         /\ ret'.exc = NoExc
         /\ \A i \in DOMAIN provider_cache :
               Occurrences(ret'.closed, provider_cache[i].inst) =
                  IF provider_cache[i].inst \in ret'.hooked THEN 1 ELSE 0
         /\ Elems(ret'.closed) \subseteq {provider_cache[i].inst : i \in DOMAIN provider_cache}
         /\ ret'.swallowed \subseteq Elems(ret'.closed)]_vars

\* C8 witness: a close() raised and an instance cached after it was closed
\* all the same.
C8_Witness ==
    /\ ret.op = "clear"
    /\ provider_cache = <<>>
    /\ \E i, j \in DOMAIN ret.closed :
          i < j /\ ret.closed[i] \in ret.swallowed /\ ret.closed[j] \notin ret.swallowed

C10_Bounded ==
    /\ requests <= 3
    /\ apiPc = "attempt" => requests = Len(raised) /\ requests < 3
    /\ apiPc = "sleep" => requests = Len(raised) /\ requests < 3
    /\ apiPc = "returned" => requests = Len(raised) + 1
    /\ apiPc = "raised" => requests = 3 /\ Len(raised) = 3

C10_AtMostThreeRequests ==
    /\ []C10_Bounded
    /\ [][(apiPc \in {"returned", "raised"}) =>
            (requests' = requests \/ (apiPc' = "attempt" /\ requests' = 0))]_vars
    /\ (apiPc \in {"attempt", "sleep"}) ~> (apiPc \in {"returned", "raised"})

\* C10 witness: an invocation ended by raising after its third request.
C10_Witness ==
    /\ apiPc = "raised"
    /\ requests = 3
    /\ Len(slept) = 2

\* C11 as stated: the wait after the k-th failed attempt is
\* min(8, 2 * 2^(k-1)): 2 before the second attempt and 4 before the third.
C11_WaitSchedule ==
    \A k \in DOMAIN slept : slept[k] = Min(8, 2 * Pow2(k - 1))

\* C12: when all 3 attempts of _api_call raised, the caller gets the
\* exception of the third attempt itself, not the first one's and not a
\* wrapper of the retry library.
C12_LastExceptionReraised ==
    apiPc = "raised" =>
       /\ Len(raised) = 3
       /\ apiResult.kind = "exception"
       /\ apiResult.exc = ApiBody(lastResp)
       /\ apiResult.exc = raised[3]
       /\ apiResult.exc.type # "RetryError"

\* C12 witness: three attempts raised three different exceptions and the
\* caller got the third.
C12_Witness ==
    /\ apiPc = "raised"
    /\ raised[1].type = "Timeout"
    /\ raised[2].type = "RuntimeError"
    /\ raised[3].type = "ValueError"
    /\ apiResult.exc.type = "ValueError"

\* C13: _api_call never returns a body that carries the error-message field
\* or the rate-limit notice field: an attempt that received such a body
\* raised ValueError (error message) or RuntimeError (notice), neither of
\* which is the HTTPError of raise_for_status.
C13_InBandErrorsRaise ==
    /\ apiPc = "returned" =>
          /\ lastResp.transport = "ok"
          /\ apiResult.fields = lastResp.fields
          /\ "Error Message" \notin apiResult.fields
          /\ "Note" \notin apiResult.fields
    /\ (lastResp.transport = "ok" /\ "Error Message" \in lastResp.fields) =>
          /\ apiPc # "returned"
          /\ raised # <<>>
          /\ raised[Len(raised)].type = "ValueError"
          /\ raised[Len(raised)].type # ApiBody([transport |-> "httpError", fields |-> {},
                                                 infoRate |-> FALSE]).type
    /\ (/\ lastResp.transport = "ok"
        /\ "Error Message" \notin lastResp.fields
        /\ "Note" \in lastResp.fields) =>
          /\ apiPc # "returned"
          /\ raised # <<>>
          /\ raised[Len(raised)].type = "RuntimeError"
          /\ raised[Len(raised)].type # ApiBody([transport |-> "httpError", fields |-> {},
                                                 infoRate |-> FALSE]).type

\* C13 witness: the last attempt of an invocation received a rate-limit
\* notice and the invocation raised RuntimeError.
C13_Witness ==
    /\ apiPc = "raised"
    /\ lastResp.transport = "ok"
    /\ lastResp.fields = {"Note"}
    /\ apiResult.exc = [type |-> "RuntimeError", from |-> "Note"]

\* C14 as stated: constructing with no explicit key while the environment
\* variable is unset or empty raises before a session exists and before any
\* request, in one attempt; with an explicit non-empty key construction
\* succeeds and uses that key rather than the environment's.
C14_Original ==
    avRet.op = "init" =>
       /\ (avRet.api_key \in {"None", ""} /\ avRet.env \in {"unset", ""}) =>
             /\ avRet.exc # NoExc
             /\ ~avRet.session
             /\ avRet.requests = 0
             /\ avRet.attempts = 1
       /\ avRet.api_key \notin {"None", ""} =>
             /\ avRet.exc = NoExc
             /\ avRet.key = avRet.api_key

\* C14 amended: as stated, except that an explicit non-empty key makes the
\* construction succeed only when the requests package could be imported;
\* when it could not, every construction raises ImportError before the key
\* is looked at.
C14_ConstructorKey ==
    avRet.op = "init" =>
       /\ (avRet.api_key \in {"None", ""} /\ avRet.env \in {"unset", ""}) =>
             /\ avRet.exc # NoExc
             /\ ~avRet.session
             /\ avRet.requests = 0
             /\ avRet.attempts = 1
       /\ (avRet.api_key \notin {"None", ""} /\ avModule.has_requests) =>
             /\ avRet.exc = NoExc
             /\ avRet.key = avRet.api_key
             /\ avRet.session
             /\ av = [constructed |-> TRUE, api_key |-> avRet.api_key, session |-> TRUE]
       /\ ~avModule.has_requests =>
             /\ avRet.exc.type = "ImportError"
             /\ ~avRet.session

\* C14 witness: requests is importable, no key is passed and the environment
\* variable is empty: the constructor raised ValueError and made no session.
C14_Witness ==
    /\ avRet.op = "init"
    /\ avModule.has_requests
    /\ avRet.api_key = "None"
    /\ avRet.env = ""
    /\ avRet.exc.type = "ValueError"
    /\ ~avRet.session

\* days on a calendar of 31-day months: orders dates as the calendar does
DayNumber(d) == (d.year * 12 + d.month) * 31 + d.day

\* start <= date <= end
InRange(d, start, end) ==
    DayNumber(start) <= DayNumber(d) /\ DayNumber(d) <= DayNumber(end)

\* the fetch of position i of the last fetch_daily_prices call succeeded: the
\* call returned a body, every date of the series is a date and every bar in
\* the range is complete and numeric
TickerSucceeded(i) ==
    LET o == avRet.outcomes[i]
    IN  /\ o.failures < 3
        /\ \A k \in DOMAIN o.payload.series :
              LET e == o.payload.series[k]
              IN  /\ e.date_str \in IsoTexts
                  /\ InRange(fromisoformat(e.date_str), avRet.start, avRet.end) =>
                        /\ DOMAIN e.bar = BarKeys
                        /\ \A f \in BarKeys : e.bar[f] \in FloatTexts

\* the in-range bars of position i, as rows
BarsInRange(i) ==
    LET series == avRet.outcomes[i].payload.series
    IN  { Row(avRet.tickers[i], fromisoformat(series[k].date_str), series[k].bar) :
            k \in {j \in DOMAIN series :
                      InRange(fromisoformat(series[j].date_str), avRet.start, avRet.end)} }

EightColumns ==
    {"date", "ticker", "open", "high", "low", "close", "adj_close", "volume"}

\* C15: fetch_daily_prices does not raise whichever tickers fail; its rows
\* are exactly the in-range bars of the tickers whose fetch succeeded, and
\* when every ticker failed it returns the empty table with the 8 columns.
C15_FailuresIsolatedPerTicker ==
    avRet.op = "daily" =>
       /\ avRet.exc = NoExc
       /\ Elems(avRet.table.rows)
            = UNION {BarsInRange(i) : i \in {j \in DOMAIN avRet.tickers : TickerSucceeded(j)}}
       /\ (\A i \in DOMAIN avRet.tickers : ~TickerSucceeded(i)) =>
             /\ avRet.table.rows = <<>>
             /\ Elems(avRet.table.columns) = EightColumns
             /\ Len(avRet.table.columns) = 8

\* C15 witness: of two tickers the first failed all three attempts and the
\* second returned bars in the range; the call returned the second's bars.
C15_Witness ==
    /\ avRet.op = "daily"
    /\ avRet.tickers = <<"AAPL", "MSFT">>
    /\ avRet.outcomes[1].failures = 3
    /\ TickerSucceeded(2)
    /\ avRet.exc = NoExc
    /\ avRet.table.rows # <<>>
    /\ \A k \in DOMAIN avRet.table.rows : avRet.table.rows[k].ticker = "MSFT"

\* C16 as stated: the rows of the table returned by fetch_daily_prices are
\* strictly increasing in (ticker, date), also when the list names a ticker
\* more than once.
C16_StrictlySorted ==
    avRet.op = "daily" =>
       \A k \in 1..(Len(avRet.table.rows) - 1) :
          LET a == avRet.table.rows[k]
              b == avRet.table.rows[k + 1]
          IN  \/ TickerRank(a.ticker) < TickerRank(b.ticker)
              \/ a.ticker = b.ticker /\ DayNumber(a.date) < DayNumber(b.date)

\* C17: every row returned has start <= date <= end, and every bar of a
\* successfully fetched ticker whose date is in that range is a row.
C17_RangeInclusive ==
    avRet.op = "daily" =>
       /\ \A k \in DOMAIN avRet.table.rows :
             InRange(avRet.table.rows[k].date, avRet.start, avRet.end)
       /\ \A i \in DOMAIN avRet.tickers :
             TickerSucceeded(i) =>
                \A k \in DOMAIN avRet.outcomes[i].payload.series :
                   LET d == fromisoformat(avRet.outcomes[i].payload.series[k].date_str)
                   IN  InRange(d, avRet.start, avRet.end) =>
                          \E r \in DOMAIN avRet.table.rows :
                             /\ avRet.table.rows[r].ticker = avRet.tickers[i]
                             /\ avRet.table.rows[r].date = d

\* C17 witness: a call with start before end returned a bar dated start and
\* a bar dated end.
C17_Witness ==
    /\ avRet.op = "daily"
    /\ DayNumber(avRet.start) < DayNumber(avRet.end)
    /\ \E k \in DOMAIN avRet.table.rows : avRet.table.rows[k].date = avRet.start
    /\ \E k \in DOMAIN avRet.table.rows : avRet.table.rows[k].date = avRet.end

\* C18: fetch_daily_prices([], s, e) returns no rows, the columns date,
\* ticker, open, high, low, close, adj_close and volume, and sends nothing.
C18_EmptyTickerList ==
    (avRet.op = "daily" /\ avRet.tickers = <<>>) =>
       /\ avRet.exc = NoExc
       /\ avRet.table.rows = <<>>
       /\ EightColumns \subseteq Elems(avRet.table.columns)
       /\ avRet.requests = 0

\* C18 witness: the empty list was passed with start after end.
C18_Witness ==
    /\ avRet.op = "daily"
    /\ avRet.tickers = <<>>
    /\ DayNumber(avRet.end) < DayNumber(avRet.start)
    /\ avRet.table.rows = <<>>

\* C19 as stated: fetch_ticker_info never raises and returns a dict with
\* the eight keys whatever the overview request gives (failure after
\* retries, empty object, sentinel or unparseable field values); on failure
\* or an empty object beta is 1.0 and market_cap is 0.0.
C19_TickerInfoNeverRaises ==
    avRet.op = "info" =>
       /\ avRet.exc = NoExc
       /\ DOMAIN avRet.info =
             {"market_cap", "sector", "industry", "beta", "shares_outstanding",
              "avg_volume", "dividend_yield", "short_pct_of_float"}
       /\ (avRet.outcome.failures = 3 \/ avRet.outcome.payload = EmptyOverview) =>
             /\ avRet.info.beta = Num(10000)
             /\ avRet.info.market_cap = Num(0)

\* the most recent point of a data list
MostRecent(points) ==
    CHOOSE pt \in Elems(points) :
       \A other \in Elems(points) :
          DayNumber(fromisoformat(other.date)) <= DayNumber(fromisoformat(pt.date))

\* the last fetch_risk_free_rate call got a body whose most recent data
\* point has a value float() reads
RateUsable ==
    /\ avRet.outcome.failures < 3
    /\ avRet.outcome.payload.points # <<>>
    /\ MostRecent(avRet.outcome.payload.points).value \in {"5.25", "0", "12.5", "NaN"}

\* C20: fetch_risk_free_rate never raises; it returns the most recent data
\* point's value divided by 100 when the request succeeded with a usable
\* value, and 0.05 in every other case.
C20_RiskFreeRate ==
    avRet.op = "rate" =>
       /\ avRet.exc = NoExc
       /\ IF RateUsable
          THEN LET value == MostRecent(avRet.outcome.payload.points).value
               IN  CASE value = "5.25" -> avRet.rate = Num(525)
                     [] value = "0"    -> avRet.rate = Num(0)
                     [] value = "12.5" -> avRet.rate = Num(1250)
                     [] value = "NaN"  -> avRet.rate.nan
          ELSE avRet.rate = Num(500)

\* C20 witness: the body lists 5.25 for the newest day and 12.5 for the day
\* before; the call returned 0.0525.
C20_Witness ==
    /\ avRet.op = "rate"
    /\ avRet.outcome.failures = 1
    /\ Len(avRet.outcome.payload.points) = 2
    /\ avRet.outcome.payload.points[1].value = "5.25"
    /\ avRet.outcome.payload.points[2].value = "12.5"
    /\ avRet.rate = Num(525)

\* C29: when get_market_provider_safe falls back, whatever arguments the
\* failed request carried, it returns the cached default singleton (the
\* one already cached, or one constructed and cached at that moment), and
\* when the default's construction fails too the caller gets the default's
\* exception.
C29_FallbackIgnoresKwargs ==
    [][(ret'.op = "safe" /\ ret'.fallback) =>
          /\ ret'.firstExc # NoExc
          /\ IF ret'.exc = NoExc
             THEN /\ InCache(provider_cache', "Yahoo Finance")
                  /\ CacheGet(provider_cache', "Yahoo Finance").inst = ret'.obj.inst
                  /\ ret'.obj.cls = "YahooMarketProvider"
                  /\ IF InCache(provider_cache, "Yahoo Finance")
                     THEN /\ ret'.obj.inst = CacheGet(provider_cache, "Yahoo Finance").inst
                          /\ nextId' = nextId
                     ELSE /\ ret'.obj.inst = nextId + 1
                          /\ nextId' = nextId + 1
                          /\ provider_cache' =
                                Append(provider_cache,
                                       [name |-> "Yahoo Finance", inst |-> nextId + 1,
                                        cls |-> "YahooMarketProvider"])
             ELSE /\ ~InCache(provider_cache, "Yahoo Finance")
                  /\ provider_cache' = provider_cache
                  /\ ret'.env["Yahoo Finance"] # "ready"
                  /\ ret'.exc.from \in {"import", "ctor"}
                  /\ ret'.exc.type =
                        (CASE ret'.env["Yahoo Finance"] \in {"modBroken", "depMissing"}
                                 -> "ImportError"
                           [] ret'.env["Yahoo Finance"] = "noCredential" -> "ValueError"
                           [] ret'.env["Yahoo Finance"] = "unreachable" -> "ConnectionError")]_vars

\* C29 witness: a safe request with constructor arguments failed and the
\* caller holds the cached default instance.
C29_Witness ==
    /\ ret.op = "safe"
    /\ ret.fallback
    /\ ret.kwargs = {"host", "port"}
    /\ ret.exc = NoExc
    /\ InCache(provider_cache, "Yahoo Finance")
    /\ CacheGet(provider_cache, "Yahoo Finance").inst = ret.obj.inst

\* C30 as stated: the registry has an entry for the Alpha Vantage adapter, so
\* get_market_provider("Alpha Vantage") never raises the unknown-provider
\* error and what it returns is an AlphaVantageMarketProvider.
C30_AlphaVantageSelectable ==
    (ret.op = "get" /\ ret.name = "Alpha Vantage") =>
       /\ ret.exc # [type |-> "ValueError", from |-> "lookup"]
       /\ ret.exc = NoExc => ret.obj.cls = "AlphaVantageMarketProvider"

\* C27: an attempt of _api_call that raises is followed by a retry while
\* attempts remain, whatever the exception (a time-out, an HTTP status
\* error, a rate-limit notice, the ValueError of an in-band error message);
\* a call that raised to its caller has sent its request 3 times.
C27_EveryExceptionRetried ==
    /\ [](apiPc = "raised" => (requests = 3 /\ Len(raised) = 3))
    /\ [][(apiPc = "attempt" /\ requests' = requests + 1
                             /\ Len(raised') = Len(raised) + 1) =>
             IF attempt < 3
             THEN apiPc' = "sleep" /\ apiResult' = NoResult
             ELSE apiPc' = "raised"]_vars
    /\ [][apiPc = "sleep" => (apiPc' = "attempt" /\ attempt' = attempt + 1)]_vars

\* C27 witness: the same in-band error message came back three times; the
\* request was sent three times before ValueError reached the caller.
C27_Witness ==
    /\ apiPc = "raised"
    /\ requests = 3
    /\ \A k \in 1..3 : raised[k] = [type |-> "ValueError", from |-> "Error Message"]
    /\ Len(slept) = 2

\* C25: without a lock two threads in no-argument get_market_provider(name)
\* on a cache without name can both pass the test of the cache; then the
\* constructor runs twice and they receive different instances.  A call
\* that starts after another for the same name has returned an instance
\* receives that instance.
C25_CacheNotThreadSafe ==
    \A t \in ThreadIds, u \in ThreadIds :
       (/\ t # u
        /\ threads[t].pc = "done" /\ threads[u].pc = "done"
        /\ threads[t].name = threads[u].name
        /\ threads[t].exc = NoExc /\ threads[u].exc = NoExc) =>
          /\ (threads[t].constructed /\ threads[u].constructed) =>
                /\ threads[t].obj.inst # threads[u].obj.inst
                /\ nextId >= 2
          /\ t \in threads[u].after =>
                /\ ~threads[u].constructed
                /\ threads[u].obj = threads[t].obj

\* C25 witness: both threads constructed an instance for the same name and
\* returned; the callers hold different instances.
C25_Witness ==
    /\ threads[1].pc = "done" /\ threads[2].pc = "done"
    /\ threads[1].name = "Yahoo Finance" /\ threads[2].name = "Yahoo Finance"
    /\ threads[1].constructed /\ threads[2].constructed
    /\ threads[1].obj.inst # threads[2].obj.inst
    /\ Len(provider_cache) = 1

\* C21 as stated: fetch_price_history returns [] and raises nothing whenever
\* fetch_daily_prices raises or returns something that cannot be filtered
\* (no table, or a table without the ticker or the date column).
C21_EmptyOnAnyFailure ==
    (/\ histRet.op = "history"
     /\ \/ histRet.outcome.kind \in {"raise", "None"}
        \/ "ticker" \notin histRet.outcome.columns
        \/ "date" \notin histRet.outcome.columns) =>
       /\ histRet.exc = NoExc
       /\ histRet.result = <<>>

\* the start of the window of the last fetch_price_history call
ExpectedStart ==
    CASE histRet.today = Date(2024, 3, 1) /\ histRet.days = 1   -> Date(2024, 2, 29)
      [] histRet.today = Date(2024, 3, 1) /\ histRet.days = 5   -> Date(2024, 2, 25)
      [] histRet.today = Date(2024, 3, 1) /\ histRet.days = 400 -> Date(2023, 1, 26)
      [] histRet.today = Date(2025, 1, 30) /\ histRet.days = 1   -> Date(2025, 1, 29)
      [] histRet.today = Date(2025, 1, 30) /\ histRet.days = 5   -> Date(2025, 1, 25)
      [] histRet.today = Date(2025, 1, 30) /\ histRet.days = 400 -> Date(2023, 12, 27)

\* C22: fetch_price_history(ticker, days) asks fetch_daily_prices for
\* exactly [ticker] from today - days to today; from the table that comes
\* back (one with the contract's columns) it returns the rows of that
\* ticker and no others, by ascending date, each with exactly the keys date,
\* open, high, low, close, volume.
C22_HistoryFiltersAndSorts ==
    histRet.op = "history" =>
       /\ histRet.call.tickers = <<histRet.ticker>>
       /\ histRet.call.end = histRet.today
       /\ histRet.call.start = ExpectedStart
       /\ (histRet.outcome.kind = "table"
           /\ EightColumns \subseteq histRet.outcome.columns) =>
             /\ histRet.exc = NoExc
             /\ \A k \in DOMAIN histRet.result :
                   DOMAIN histRet.result[k] = {"date", "open", "high", "low", "close", "volume"}
             /\ \A k \in 1..(Len(histRet.result) - 1) :
                   DayNumber(histRet.result[k].date) <= DayNumber(histRet.result[k + 1].date)
             /\ \A d \in Dates :
                   Cardinality({k \in DOMAIN histRet.result : histRet.result[k].date = d})
                     = Cardinality({k \in DOMAIN histRet.outcome.rows :
                                       /\ histRet.outcome.rows[k].ticker = histRet.ticker
                                       /\ histRet.outcome.rows[k].date = d})
             /\ \A k \in DOMAIN histRet.result :
                   \E j \in DOMAIN histRet.outcome.rows :
                      LET row == histRet.outcome.rows[j]
                          out == histRet.result[k]
                      IN  /\ row.ticker = histRet.ticker
                          /\ out.date = row.date /\ out.open = row.open
                          /\ out.high = row.high /\ out.low = row.low
                          /\ out.close = row.close /\ out.volume = row.volume

\* C22 witness: for MSFT the table held an AAPL bar and a later MSFT bar;
\* the call returned the one MSFT bar.
C22_Witness ==
    /\ histRet.op = "history"
    /\ histRet.ticker = "MSFT"
    /\ histRet.days = 400
    /\ Len(histRet.outcome.rows) = 2
    /\ histRet.outcome.rows[1].ticker = "MSFT"
    /\ histRet.outcome.rows[2].ticker = "AAPL"
    /\ Len(histRet.result) = 1
    /\ histRet.result[1].date = histRet.outcome.rows[1].date

\* C24 as stated: get_company_overview returns a dict with at least the keys
\* ticker, name, sector, industry, market_cap, currency, exchange when the
\* lookup succeeded, and a dict with the error key whenever it failed, the
\* overview request failing after all retries included.
C24_OverviewOrError ==
    mkRet.op = "get_company_overview" =>
       /\ mkRet.exc = NoExc
       /\ IF mkRet.ovFailed
          THEN "error" \in DOMAIN mkRet.result
          ELSE "error" \notin DOMAIN mkRet.result =>
                  {"ticker", "name", "sector", "industry", "market_cap", "currency",
                   "exchange"} \subseteq DOMAIN mkRet.result

\* C28: over any sequence of get_company_overview, get_fundamentals and
\* get_info calls on one instance, an entry of the overview cache is never
\* changed or removed; a call for a ticker that has an entry makes no
\* overview request and sees the stored response; a call for a ticker
\* without one makes the request, stores the response when the request
\* succeeded (an empty object too) and stores nothing when it failed.
C28_OverviewMemoized ==
    [][/\ \A t \in Tickers :
             InOverviewCache(overview_cache, t) =>
                /\ InOverviewCache(overview_cache', t)
                /\ OverviewCacheGet(overview_cache', t) = OverviewCacheGet(overview_cache, t)
       /\ (/\ mkRet = NoMkRet
           /\ mkRet'.op \in {"get_company_overview", "get_fundamentals", "get_info"}) =>
             IF InOverviewCache(overview_cache, mkRet'.ticker)
             THEN /\ mkRet'.ovRequests = 0
                  /\ mkRet'.ov = OverviewCacheGet(overview_cache, mkRet'.ticker)
                  /\ overview_cache' = overview_cache
             ELSE /\ mkRet'.ovRequests >= 1
                  /\ IF mkRet'.ovOutcome.failures >= StopAfterAttempt
                     THEN /\ mkRet'.ovRequests = StopAfterAttempt
                          /\ overview_cache' = overview_cache
                     ELSE /\ InOverviewCache(overview_cache', mkRet'.ticker)
                          /\ OverviewCacheGet(overview_cache', mkRet'.ticker)
                                = mkRet'.ovOutcome.body
                          /\ mkRet'.ov = mkRet'.ovOutcome.body]_vars

\* C28 witness: AAPL's overview request had returned an empty object; a
\* later get_info for AAPL made no request and saw the empty object, though
\* the server would now answer with a complete one.
C28_Witness ==
    /\ mkRet.op = "get_info"
    /\ mkRet.ticker = "AAPL"
    /\ mkRet.ovOutcome.body = FullObject
    /\ mkRet.ovRequests = 0
    /\ mkRet.ov = EmptyObject
    /\ InOverviewCache(overview_cache, "AAPL")

\* the day count the period table gives a token
PeriodDays(period) ==
    CASE period = "1mo" -> 30
      [] period \in {"3mo"} -> 90
      [] period \in {"6mo", "ytd"} -> 180
      [] period = "1y" -> 365
      [] period = "2y" -> 730
      [] period = "5y" -> 1825
      [] period \in {"10y", "max"} -> 3650
      [] OTHER -> 180

\* the texts of the dates of a series that are on or after today minus days
DatesInWindow(series, today, days) ==
    {series[i].date_str : i \in {k \in DOMAIN series :
        /\ series[k].date_str \in IsoTexts
        /\ ToOrdinal(fromisoformat(series[k].date_str)) >= ToOrdinal(today) - days}}

\* C26: get_history maps the period token to a day count through the fixed
\* table (any other token: 180) and returns exactly the bars dated on or
\* after today minus that count, indexed by date in ascending order; a
\* missing time series, an empty window or any exception inside the call
\* gives the empty table, and nothing is raised.
C26_HistoryWindow ==
    mkRet.op = "get_history" =>
       LET o      == mkRet.outcome
           window == DatesInWindow(o.payload.series, mkRet.today, PeriodDays(mkRet.period))
           rows   == mkRet.result.rows
       IN  /\ mkRet.exc = NoExc
           /\ IF \/ mkRet.caught # NoExc
                 \/ ~o.payload.has_ts
                 \/ window = {}
              THEN mkRet.result = EmptyFrame
              ELSE /\ mkRet.result.index = "Date"
                   /\ {r.Date : r \in Elems(rows)} = {fromisoformat(t) : t \in window}
                   /\ Len(rows) = Cardinality(window)
                   /\ \A i \in 1..(Len(rows) - 1) :
                         DayNumber(rows[i].Date) < DayNumber(rows[i + 1].Date)

\* C26 witness: get_history with period 5y on 2029-01-29 over a series with
\* bars of 2024-01-31, 2024-02-01 and 2024-01-30 returned the bars of
\* 2024-01-31 (the cutoff day) and 2024-02-01 in that order.
C26_Witness ==
    /\ mkRet.op = "get_history"
    /\ mkRet.period = "5y"
    /\ mkRet.today = Date(2029, 1, 29)
    /\ Len(mkRet.outcome.payload.series) = 3
    /\ mkRet.outcome.payload.series[1].date_str = "2024-01-31"
    /\ Len(mkRet.result.rows) = 2
    /\ mkRet.result.rows[1].Date = Date(2024, 1, 31)
    /\ mkRet.result.rows[2].Date = Date(2024, 2, 1)

\* the record-contract operations of AlphaVantageMarketProvider and the
\* form of their results
DictOps == {"get_ticker_object", "get_company_overview", "get_price_data",
            "get_fundamentals", "get_info"}

TableOps == {"get_insider_transactions", "get_earnings_history",
             "get_quarterly_earnings", "get_history"}

\* C23 as stated: none of the nine operations propagates an exception; for
\* every outcome of the outbound calls a dict operation returns a dict (a
\* populated one or {ticker, error}) and a table operation returns a table,
\* the empty table or None.
C23_NoOperationRaises ==
    mkRet.op \in DictOps \cup TableOps =>
       /\ mkRet.exc = NoExc
       /\ mkRet.op \in DictOps =>
             \/ DOMAIN mkRet.result = {"ticker", "error"}
             \/ "error" \notin DOMAIN mkRet.result /\ mkRet.result # [none |-> TRUE]
       /\ mkRet.op \in TableOps =>
             \/ mkRet.result = NoFrame
             \/ mkRet.result = EmptyFrame
             \/ mkRet.result.rows # <<>>

====
